---------------------------- MODULE Spec2Model ----------------------------
(***************************************************************************)
(* KODA (koda-js): the public entry points of src/index.ts, the N-API      *)
(* binding: ValueToNapi, NapiToValue, NativeEncode, ...; the addon loader    *)
(* and the decoder worker, over the binary format of SPEC.md section 6.     *)
(*                                                                         *)
(* Eight specifications share the variables:                               *)
(*   Spec        encode and decodeSync on one module instance;             *)
(*   SpecAsync   decode: a worker per call, beside decodeSync;             *)
(*   SpecPool    createDecoderPool: FIFO dispatch, destroy;                *)
(*   SpecStream  createEncodeStream piped to createDecodeStream;           *)
(*   SpecText    stringify and parse, with their options;                  *)
(*   SpecAll     every operation side by side, called the plain way;       *)
(*   SpecEnv     the synchronous calls while the addon file changes;       *)
(*   SpecWorker  the message port of the decoder workers.                  *)
(*                                                                         *)
(* 64-bit quantities (int64_t, double) are sequences of 64 bits, most      *)
(* significant first, so that the casts of the binding are computed bit    *)
(* for bit.  Bytes are numbers 0..255.  JavaScript strings are sequences   *)
(* of UTF-16 code units, engine strings are sequences of UTF-8 bytes.      *)
(***************************************************************************)
EXTENDS Integers, Sequences, FiniteSets, TLC

(***************************************************************************)
(* Bit sequences                                                           *)
(***************************************************************************)
RECURSIVE Pow2(_)
Pow2(n) == IF n = 0 THEN 1 ELSE 2 * Pow2(n - 1)

\* A function on 1..n as an explicit sequence.
Tup(f, n) == SubSeq(f, 1, n)

Zeros(n) == Tup([i \in 1..n |-> 0], n)

\* The value of a short bit sequence (at most 30 bits), most significant first.
RECURSIVE BitsToNat(_)
BitsToNat(b) ==
  IF Len(b) = 0 THEN 0
  ELSE 2 * BitsToNat(SubSeq(b, 1, Len(b) - 1)) + b[Len(b)]

\* The w-bit representation of a natural n < 2^w (w at most 30).
NatToBits(n, w) == Tup([i \in 1..w |-> (n \div Pow2(w - i)) % 2], w)

IsZeroBits(b) == \A i \in 1..Len(b) : b[i] = 0

\* b + 1 modulo 2^Len(b).
IncBits(b) ==
  Tup([i \in 1..Len(b) |->
        IF \A j \in (i + 1)..Len(b) : b[j] = 1 THEN 1 - b[i] ELSE b[i]],
      Len(b))

NotBits(b) == Tup([i \in 1..Len(b) |-> 1 - b[i]], Len(b))

\* Two's complement negation modulo 2^Len(b).
NegBits(b) == IncBits(NotBits(b))

\* Index of the first 1 of b (Len(b) + 1 when there is none).
FirstOne(b) ==
  IF IsZeroBits(b) THEN Len(b) + 1
  ELSE CHOOSE i \in 1..Len(b) : b[i] = 1 /\ \A j \in 1..(i - 1) : b[j] = 0

\* b padded on the left with zeros to n bits.
PadLeft(b, n) == Zeros(n - Len(b)) \o b

\* b padded on the right with zeros to n bits.
PadRight(b, n) == b \o Zeros(n - Len(b))

(***************************************************************************)
(* int64_t and IEEE-754 binary64                                           *)
(***************************************************************************)
DblSign(d) == d[1]
DblExp(d)  == BitsToNat(SubSeq(d, 2, 12))
DblFrac(d) == SubSeq(d, 13, 64)

MkDouble(sign, e, frac) == <<sign>> \o NatToBits(e, 11) \o frac

DblIsNaN(d)  == DblExp(d) = 2047 /\ ~IsZeroBits(DblFrac(d))
DblIsZero(d) == DblExp(d) = 0 /\ IsZeroBits(DblFrac(d))

\* The C++ == of two doubles: NaN equals nothing, -0.0 equals +0.0.
DblEq(a, b) ==
  /\ ~DblIsNaN(a)
  /\ ~DblIsNaN(b)
  /\ \/ a = b
     \/ DblIsZero(a) /\ DblIsZero(b)

\* static_cast<double>(int64_t): round to nearest, ties to even.
Int64ToDouble(i) ==
  IF IsZeroBits(i) THEN Zeros(64)
  ELSE
    LET neg   == i[1] = 1
        mag   == IF neg THEN NegBits(i) ELSE i
        p     == FirstOne(mag)
        ext   == mag \o Zeros(64)
        sig   == SubSeq(ext, p, p + 52)
        rest  == SubSeq(mag, p + 53, 64)
        guard == Len(rest) > 0 /\ rest[1] = 1
        stick == \E k \in 2..Len(rest) : rest[k] = 1
        up    == guard /\ (stick \/ sig[53] = 1)
        carry == up /\ \A k \in 1..53 : sig[k] = 1
        sig2  == IF up THEN IncBits(sig) ELSE sig
        e     == 1023 + (64 - p) + (IF carry THEN 1 ELSE 0)
        frac  == IF carry THEN Zeros(52) ELSE SubSeq(sig2, 2, 53)
    IN  MkDouble(IF neg THEN 1 ELSE 0, e, frac)

\* d >= -9007199254740992.0 && d <= 9007199254740992.0
DblInSafeRange(d) ==
  /\ ~DblIsNaN(d)
  /\ \/ DblExp(d) < 1023 + 53
     \/ DblExp(d) = 1023 + 53 /\ IsZeroBits(DblFrac(d))

\* static_cast<int64_t>(double) for a double within the range above
\* (truncation toward zero; defined behaviour in that range).
DoubleToInt64(d) ==
  LET e   == DblExp(d) - 1023
      sig == <<1>> \o DblFrac(d)
      mag == IF DblExp(d) = 0 \/ e < 0 THEN Zeros(64)
             ELSE IF e <= 52 THEN PadLeft(SubSeq(sig, 1, e + 1), 64)
             ELSE PadLeft(sig \o Zeros(e - 52), 64)
  IN  IF DblSign(d) = 1 THEN NegBits(mag) ELSE mag


Bits64ToBytes(b) ==
  Tup([k \in 1..8 |-> BitsToNat(SubSeq(b, 8 * k - 7, 8 * k))], 8)

RECURSIVE BytesToBits(_)
BytesToBits(bs) ==
  IF Len(bs) = 0 THEN <<>>
  ELSE NatToBits(bs[1], 8) \o BytesToBits(Tail(bs))

(***************************************************************************)
(* Strings: UTF-16 code units on the JavaScript side, UTF-8 bytes in the   *)
(* engine.                                                                 *)
(***************************************************************************)
IsHighSurrogate(u) == u >= 55296 /\ u <= 56319
IsLowSurrogate(u)  == u >= 56320 /\ u <= 57343
ReplacementChar    == 65533

\* The code points of a JavaScript string; an unpaired surrogate becomes
\* U+FFFD, as in napi_get_value_string_utf8.
RECURSIVE CodePoints(_)
CodePoints(u) ==
  IF Len(u) = 0 THEN <<>>
  ELSE IF IsHighSurrogate(u[1]) /\ Len(u) >= 2 /\ IsLowSurrogate(u[2])
    THEN <<65536 + (u[1] - 55296) * 1024 + (u[2] - 56320)>>
           \o CodePoints(SubSeq(u, 3, Len(u)))
  ELSE IF IsHighSurrogate(u[1]) \/ IsLowSurrogate(u[1])
    THEN <<ReplacementChar>> \o CodePoints(Tail(u))
  ELSE <<u[1]>> \o CodePoints(Tail(u))

Utf8Encode(cp) ==
  IF cp < 128 THEN <<cp>>
  ELSE IF cp < 2048 THEN <<192 + (cp \div 64), 128 + (cp % 64)>>
  ELSE IF cp < 65536
    THEN <<224 + (cp \div 4096), 128 + ((cp \div 64) % 64), 128 + (cp % 64)>>
  ELSE <<240 + (cp \div 262144), 128 + ((cp \div 4096) % 64),
         128 + ((cp \div 64) % 64), 128 + (cp % 64)>>

RECURSIVE Utf8OfCodePoints(_)
Utf8OfCodePoints(cps) ==
  IF Len(cps) = 0 THEN <<>>
  ELSE Utf8Encode(cps[1]) \o Utf8OfCodePoints(Tail(cps))

\* Napi::String::Utf8Value()
Utf8Value(u) == Utf8OfCodePoints(CodePoints(u))

IsCont(b) == b >= 128 /\ b <= 191

\* Length of the well-formed UTF-8 sequence that starts bs (0 when bs does
\* not start with one): no overlong form, no surrogate, at most U+10FFFF.
Utf8SeqLen(bs) ==
  LET n == Len(bs) b1 == bs[1] IN
  IF b1 < 128 THEN 1
  ELSE IF b1 >= 194 /\ b1 <= 223 /\ n >= 2 /\ IsCont(bs[2]) THEN 2
  ELSE IF /\ b1 >= 224 /\ b1 <= 239 /\ n >= 3
          /\ IsCont(bs[2]) /\ IsCont(bs[3])
          /\ (b1 = 224 => bs[2] >= 160)
          /\ (b1 = 237 => bs[2] <= 159) THEN 3
  ELSE IF /\ b1 >= 240 /\ b1 <= 244 /\ n >= 4
          /\ IsCont(bs[2]) /\ IsCont(bs[3]) /\ IsCont(bs[4])
          /\ (b1 = 240 => bs[2] >= 144)
          /\ (b1 = 244 => bs[2] <= 143) THEN 4
  ELSE 0

\* Length of the longest well-formed prefix of bs: the index (from 0) of the
\* first offending byte, Len(bs) when bs is well formed.
RECURSIVE Utf8GoodPrefix(_)
Utf8GoodPrefix(bs) ==
  IF Len(bs) = 0 THEN 0
  ELSE LET k == Utf8SeqLen(bs) IN
       IF k = 0 THEN 0
       ELSE k + Utf8GoodPrefix(SubSeq(bs, k + 1, Len(bs)))

IsValidUtf8(bs) == Utf8GoodPrefix(bs) = Len(bs)

Utf8DecodeOne(bs, k) ==
  IF k = 1 THEN bs[1]
  ELSE IF k = 2 THEN (bs[1] - 192) * 64 + (bs[2] - 128)
  ELSE IF k = 3
    THEN (bs[1] - 224) * 4096 + (bs[2] - 128) * 64 + (bs[3] - 128)
  ELSE (bs[1] - 240) * 262144 + (bs[2] - 128) * 4096
         + (bs[3] - 128) * 64 + (bs[4] - 128)

Utf16Encode(cp) ==
  IF cp < 65536 THEN <<cp>>
  ELSE <<55296 + ((cp - 65536) \div 1024), 56320 + ((cp - 65536) % 1024)>>

\* Napi::String::New(env, std::string): UTF-8 to a JavaScript string; a byte
\* that starts no well-formed sequence becomes U+FFFD.
RECURSIVE StringNew(_)
StringNew(bs) ==
  IF Len(bs) = 0 THEN <<>>
  ELSE LET k == Utf8SeqLen(bs) IN
       IF k = 0 THEN <<ReplacementChar>> \o StringNew(Tail(bs))
       ELSE Utf16Encode(Utf8DecodeOne(bs, k))
              \o StringNew(SubSeq(bs, k + 1, Len(bs)))

\* Lexicographic order of byte sequences (the order of SPEC.md 6.5 rule 1).
RECURSIVE LexLess(_, _)
LexLess(a, b) ==
  IF Len(b) = 0 THEN FALSE
  ELSE IF Len(a) = 0 THEN TRUE
  ELSE IF a[1] # b[1] THEN a[1] < b[1]
  ELSE LexLess(Tail(a), Tail(b))

(***************************************************************************)
(* The engine's Value (koda_value.h, as binding.cc uses it) and the        *)
(* JavaScript values that cross the N-API boundary.                        *)
(***************************************************************************)
null_val      == [type |-> "Null"]
bool_val(b)   == [type |-> "Bool", b |-> b]
int_val(i)    == [type |-> "Int", i |-> i]
float_val(d)  == [type |-> "Float", d |-> d]
string_val(s) == [type |-> "String", s |-> s]
array_val(a)  == [type |-> "Array", arr |-> a]
object_val(o) == [type |-> "Object", obj |-> o]

JsUndefined  == [t |-> "undefined"]
JsNull       == [t |-> "null"]
JsBoolean(b) == [t |-> "boolean", b |-> b]
JsNumber(d)  == [t |-> "number", d |-> d]
JsString(u)  == [t |-> "string", u |-> u]
JsArray(e)   == [t |-> "array", elems |-> e]
JsObject(p)  == [t |-> "object", props |-> p]

IsDigit(u) == u >= 48 /\ u <= 57

RECURSIVE DigitsToNat(_)
DigitsToNat(u) ==
  IF Len(u) = 0 THEN 0
  ELSE 10 * DigitsToNat(SubSeq(u, 1, Len(u) - 1)) + (u[Len(u)] - 48)

\* Longest decimal form handled as an array index; every canonical numeric
\* string of that many digits is below 2^32 - 1.
MaxIndexDigits == 9

\* ECMAScript array index: a canonical numeric string below 2^32 - 1.
IsArrayIndex(u) ==
  /\ Len(u) >= 1
  /\ Len(u) <= MaxIndexDigits
  /\ \A i \in 1..Len(u) : IsDigit(u[i])
  /\ (Len(u) > 1 => u[1] # 48)

\* Position of key k among the own properties (0 when absent).
PropIndex(props, k) ==
  IF \E i \in 1..Len(props) : props[i][1] = k
    THEN CHOOSE i \in 1..Len(props) : props[i][1] = k
    ELSE 0

\* Number of leading properties that stay in front of a new key k:
\* array-index keys come first in ascending numeric order, all other keys
\* follow in creation order (OrdinaryOwnPropertyKeys).
KeysBefore(props, k) ==
  IF IsArrayIndex(k)
    THEN Cardinality({i \in 1..Len(props) :
                        /\ IsArrayIndex(props[i][1])
                        /\ DigitsToNat(props[i][1]) < DigitsToNat(k)})
    ELSE Len(props)

\* obj.Set(key, value) on a plain object.
JsSet(props, k, v) ==
  LET at == PropIndex(props, k) IN
  IF at # 0 THEN [props EXCEPT ![at] = <<k, v>>]
  ELSE LET n == KeysBefore(props, k) IN
       SubSeq(props, 1, n) \o <<<<k, v>>>> \o SubSeq(props, n + 1, Len(props))

\* obj.Get(key): undefined when the object has no such property.
JsGet(props, k) ==
  LET at == PropIndex(props, k) IN
  IF at = 0 THEN JsUndefined ELSE props[at][2]

\* obj.GetPropertyNames(): the own enumerable keys, in property order.
GetPropertyNames(props) == Tup([i \in 1..Len(props) |-> props[i][1]], Len(props))

RECURSIVE ValueToNapi(_)
RECURSIVE SetPairs(_, _)
\* for (const auto& p : v.obj) obj.Set(p.first, ValueToNapi(p.second, env));
SetPairs(props, pairs) ==
  IF Len(pairs) = 0 THEN props
  ELSE SetPairs(JsSet(props, StringNew(pairs[1][1]), ValueToNapi(pairs[1][2])),
                Tail(pairs))

ValueToNapi(v) ==
  CASE v.type = "Null"   -> JsNull
    [] v.type = "Bool"   -> JsBoolean(v.b)
    [] v.type = "Int"    -> JsNumber(Int64ToDouble(v.i))
    [] v.type = "Float"  -> JsNumber(v.d)
    [] v.type = "String" -> JsString(StringNew(v.s))
    [] v.type = "Array"  ->
         JsArray(Tup([i \in 1..Len(v.arr) |-> ValueToNapi(v.arr[i])], Len(v.arr)))
    [] v.type = "Object" -> JsObject(SetPairs(<<>>, v.obj))

\* The number branch of NapiToValue.
NumberToValue(d) ==
  IF DblInSafeRange(d) /\ DblEq(Int64ToDouble(DoubleToInt64(d)), d)
    THEN int_val(DoubleToInt64(d))
    ELSE float_val(d)

RECURSIVE NapiToValue(_)
NapiToValue(val) ==
  CASE val.t = "null" \/ val.t = "undefined" -> null_val
    [] val.t = "boolean" -> bool_val(val.b)
    [] val.t = "number"  -> NumberToValue(val.d)
    [] val.t = "string"  -> string_val(Utf8Value(val.u))
    [] val.t = "array"   ->
         array_val(Tup([i \in 1..Len(val.elems) |-> NapiToValue(val.elems[i])],
                       Len(val.elems)))
    [] val.t = "object"  ->
         LET keys == GetPropertyNames(val.props) IN
         object_val(Tup([i \in 1..Len(keys) |->
                          LET key == Utf8Value(keys[i]) IN
                          <<key, NapiToValue(JsGet(val.props, StringNew(key)))>>],
                        Len(keys)))

(***************************************************************************)
(* The binary format (SPEC.md 6): magic, version, key dictionary, data.    *)
(***************************************************************************)
Magic == <<75, 79, 68, 65>>
Version == 1

TagNull   == 1
TagFalse  == 2
TagTrue   == 3
TagInt    == 4
TagFloat  == 5
TagString == 6
TagBinary == 7
TagArray  == 16
TagObject == 17

\* 4 bytes, unsigned big-endian (n below 2^31 in this model).
U32(n) ==
  <<n \div 16777216, (n \div 65536) % 256, (n \div 256) % 256, n % 256>>

U32Max == Pow2(31) - 1

\* The u32 at bs[pos+1..pos+4]; values of 2^31 and more read as U32Max,
\* which exceeds every length and bound of the model.
ReadU32(bs, pos) ==
  IF bs[pos + 1] >= 128 THEN U32Max
  ELSE bs[pos + 1] * 16777216 + bs[pos + 2] * 65536
         + bs[pos + 3] * 256 + bs[pos + 4]

CanonicalNaN == MkDouble(0, 2047, <<1>> \o Zeros(51))

RECURSIVE Depth(_)
RECURSIVE MaxDepthOf(_)
MaxDepthOf(vs) ==
  IF Len(vs) = 0 THEN 0
  ELSE LET d == Depth(vs[1]) r == MaxDepthOf(Tail(vs)) IN
       IF d > r THEN d ELSE r

\* 1 for a scalar, 1 + the deepest child for a container.
Depth(v) ==
  CASE v.type = "Array"  -> 1 + MaxDepthOf(v.arr)
    [] v.type = "Object" ->
         1 + MaxDepthOf(Tup([i \in 1..Len(v.obj) |-> v.obj[i][2]], Len(v.obj)))
    [] OTHER -> 1

RECURSIVE KeysOf(_)
\* Every key used by any Object of v.
KeysOf(v) ==
  CASE v.type = "Array"  -> UNION {KeysOf(v.arr[i]) : i \in 1..Len(v.arr)}
    [] v.type = "Object" ->
         {v.obj[i][1] : i \in 1..Len(v.obj)}
           \cup UNION {KeysOf(v.obj[i][2]) : i \in 1..Len(v.obj)}
    [] OTHER -> {}

RECURSIVE StringsOf(_)
\* Every String payload of v.
StringsOf(v) ==
  CASE v.type = "Array"  -> UNION {StringsOf(v.arr[i]) : i \in 1..Len(v.arr)}
    [] v.type = "Object" -> UNION {StringsOf(v.obj[i][2]) : i \in 1..Len(v.obj)}
    [] v.type = "String" -> {v.s}
    [] OTHER -> {}

RECURSIVE HasDuplicateKeys(_)
HasDuplicateKeys(v) ==
  CASE v.type = "Array"  -> \E i \in 1..Len(v.arr) : HasDuplicateKeys(v.arr[i])
    [] v.type = "Object" ->
         \/ \E i, j \in 1..Len(v.obj) : i # j /\ v.obj[i][1] = v.obj[j][1]
         \/ \E i \in 1..Len(v.obj) : HasDuplicateKeys(v.obj[i][2])
    [] OTHER -> FALSE

\* A finite set of byte strings as a sequence in ascending byte order.
RECURSIVE SortKeys(_)
SortKeys(S) ==
  IF S = {} THEN <<>>
  ELSE LET m == CHOOSE k \in S : \A o \in S : o = k \/ LexLess(k, o) IN
       <<m>> \o SortKeys(S \ {m})

\* Dictionary index (from 0) of key k.
DictIndex(dict, k) == (CHOOSE i \in 1..Len(dict) : dict[i] = k) - 1

RECURSIVE Concat(_)
Concat(ss) == IF Len(ss) = 0 THEN <<>> ELSE ss[1] \o Concat(Tail(ss))

\* The pairs of an Object in ascending dictionary-index order.
\* The pairs left in the order the caller gave them.
SortPairsNone(pairs, dict) == pairs

SortPairs(pairs, dict) ==
  LET idx(i) == DictIndex(dict, pairs[i][1])
      rank(i) == Cardinality({j \in 1..Len(pairs) :
                    idx(j) < idx(i) \/ (idx(j) = idx(i) /\ j < i)})
  IN  Tup([r \in 1..Len(pairs) |->
             pairs[CHOOSE i \in 1..Len(pairs) : rank(i) = r - 1]], Len(pairs))

RECURSIVE EncodeData(_, _)
\* One encoded value: a tag byte and the tag's body.
EncodeData(v, dict) ==
  CASE v.type = "Null"   -> <<TagNull>>
    [] v.type = "Bool"   -> IF v.b THEN <<TagTrue>> ELSE <<TagFalse>>
    [] v.type = "Int"    -> <<TagInt>> \o Bits64ToBytes(v.i)
    [] v.type = "Float"  ->
         <<TagFloat>> \o Bits64ToBytes(IF DblIsNaN(v.d) THEN CanonicalNaN ELSE v.d)
    [] v.type = "String" -> <<TagString>> \o U32(Len(v.s)) \o v.s
    [] v.type = "Array"  ->
         <<TagArray>> \o U32(Len(v.arr))
           \o Concat(Tup([i \in 1..Len(v.arr) |-> EncodeData(v.arr[i], dict)],
                         Len(v.arr)))
    [] v.type = "Object" ->
         LET ps == SortPairs(v.obj, dict) IN
         <<TagObject>> \o U32(Len(ps))
           \o Concat(Tup([i \in 1..Len(ps) |->
                            U32(DictIndex(dict, ps[i][1]))
                              \o EncodeData(ps[i][2], dict)], Len(ps)))

EncodeDict(dict) ==
  U32(Len(dict))
    \o Concat(Tup([i \in 1..Len(dict) |-> U32(Len(dict[i])) \o dict[i]], Len(dict)))

Ok(x)  == [ok |-> TRUE, value |-> x]
Err(kind, msg, at) == [ok |-> FALSE, kind |-> kind, message |-> msg, offset |-> at]
NoOffset == -1

\* The engine's encode(value, max_depth): fail fast, no partial output.
EncodeValue(v, maxDepth) ==
  IF Depth(v) > maxDepth THEN Err("EncodeError", "depth exceeded", NoOffset)
  ELSE IF \E k \in KeysOf(v) \cup StringsOf(v) : ~IsValidUtf8(k)
    THEN Err("EncodeError", "invalid UTF-8", NoOffset)
  ELSE IF HasDuplicateKeys(v) THEN Err("EncodeError", "duplicate key", NoOffset)
  ELSE LET dict == SortKeys(KeysOf(v)) IN
       Ok(Magic \o <<Version>> \o EncodeDict(dict) \o EncodeData(v, dict))

(***************************************************************************)
(* The engine's decode(data, size, max_depth, max_dict, max_str).          *)
(***************************************************************************)
At(v, pos) == [ok |-> TRUE, value |-> v, pos |-> pos]
DecErr(msg, at) == Err("DecodeError", msg, at)

\* n dictionary entries from offset pos on: [u32 L][L UTF-8 bytes] each.
RECURSIVE ReadDict(_, _, _, _, _)
ReadDict(bs, pos, n, maxStr, acc) ==
  IF n = 0 THEN At(acc, pos)
  ELSE IF pos + 4 > Len(bs) THEN DecErr("truncated dictionary", pos)
  ELSE LET L == ReadU32(bs, pos) IN
       IF L > maxStr THEN DecErr("string too long", pos)
       ELSE IF L > Len(bs) - (pos + 4) THEN DecErr("truncated dictionary", pos + 4)
       ELSE LET key == SubSeq(bs, pos + 5, pos + 4 + L) IN
            IF ~IsValidUtf8(key)
              THEN DecErr("invalid UTF-8", pos + 4 + Utf8GoodPrefix(key))
            ELSE IF Len(acc) > 0 /\ ~LexLess(acc[Len(acc)], key)
              THEN DecErr("dictionary not in canonical order", pos)
            ELSE ReadDict(bs, pos + 4 + L, n - 1, maxStr, Append(acc, key))

RECURSIVE DecodeData(_, _, _, _, _, _)
RECURSIVE DecodeElems(_, _, _, _, _, _, _, _)
RECURSIVE DecodePairs(_, _, _, _, _, _, _, _, _)

\* n array elements from offset pos on.  (The element just decoded and the
\* elements before it are bound once, so that they are computed once.)
DecodeElems(bs, pos, n, depth, dict, maxDepth, maxStr, acc) ==
  IF n = 0 THEN At(acc, pos)
  ELSE LET Rest(r, a) ==
             IF ~r.ok THEN r
             ELSE DecodeElems(bs, r.pos, n - 1, depth, dict, maxDepth, maxStr,
                              Append(a, r.value))
       IN  CHOOSE y \in {Rest(r, a) :
                           r \in {DecodeData(bs, pos, depth, dict, maxDepth, maxStr)},
                           a \in {acc}} : TRUE

\* n (key index, value) pairs from offset pos on; last is the previous key
\* index (-1 before the first pair).
DecodePairs(bs, pos, n, depth, dict, maxDepth, maxStr, last, acc) ==
  IF n = 0 THEN At(acc, pos)
  ELSE IF pos + 4 > Len(bs) THEN DecErr("truncated object", pos)
  ELSE LET idx == ReadU32(bs, pos) IN
       IF idx >= Len(dict) THEN DecErr("key index out of range", pos)
       ELSE IF idx <= last THEN DecErr("key indices not ascending", pos)
       ELSE LET Rest(r, a) ==
                  IF ~r.ok THEN r
                  ELSE DecodePairs(bs, r.pos, n - 1, depth, dict, maxDepth,
                                   maxStr, idx,
                                   Append(a, <<dict[idx + 1], r.value>>))
            IN  CHOOSE y \in {Rest(r, a) :
                    r \in {DecodeData(bs, pos + 4, depth, dict, maxDepth, maxStr)},
                    a \in {acc}} : TRUE

\* The value encoded at offset pos, at nesting depth `depth`.
DecodeData(bs, pos, depth, dict, maxDepth, maxStr) ==
  IF depth > maxDepth THEN DecErr("depth exceeded", pos)
  ELSE IF pos + 1 > Len(bs) THEN DecErr("truncated data", pos)
  ELSE LET tag == bs[pos + 1] IN
    CASE tag = TagNull  -> At(null_val, pos + 1)
      [] tag = TagFalse -> At(bool_val(FALSE), pos + 1)
      [] tag = TagTrue  -> At(bool_val(TRUE), pos + 1)
      [] tag = TagInt   ->
           IF pos + 9 > Len(bs) THEN DecErr("truncated integer", pos + 1)
           ELSE At(int_val(BytesToBits(SubSeq(bs, pos + 2, pos + 9))), pos + 9)
      [] tag = TagFloat ->
           IF pos + 9 > Len(bs) THEN DecErr("truncated float", pos + 1)
           ELSE At(float_val(BytesToBits(SubSeq(bs, pos + 2, pos + 9))), pos + 9)
      [] tag = TagString ->
           IF pos + 5 > Len(bs) THEN DecErr("truncated string", pos + 1)
           ELSE LET L == ReadU32(bs, pos + 1) IN
             IF L > maxStr THEN DecErr("string too long", pos + 1)
             ELSE IF L > Len(bs) - (pos + 5) THEN DecErr("truncated string", pos + 5)
             ELSE LET str == SubSeq(bs, pos + 6, pos + 5 + L) IN
                  IF ~IsValidUtf8(str)
                    THEN DecErr("invalid UTF-8", pos + 5 + Utf8GoodPrefix(str))
                    ELSE At(string_val(str), pos + 5 + L)
      [] tag = TagArray ->
           IF pos + 5 > Len(bs) THEN DecErr("truncated array", pos + 1)
           ELSE LET n == ReadU32(bs, pos + 1) IN
             IF n > Len(bs) - (pos + 5) THEN DecErr("truncated array", pos + 5)
             ELSE LET r == DecodeElems(bs, pos + 5, n, depth + 1, dict,
                                       maxDepth, maxStr, <<>>) IN
                  IF ~r.ok THEN r ELSE At(array_val(r.value), r.pos)
      [] tag = TagObject ->
           IF pos + 5 > Len(bs) THEN DecErr("truncated object", pos + 1)
           ELSE LET n == ReadU32(bs, pos + 1) IN
             IF n > Len(bs) - (pos + 5) THEN DecErr("truncated object", pos + 5)
             ELSE LET r == DecodePairs(bs, pos + 5, n, depth + 1, dict,
                                       maxDepth, maxStr, -1, <<>>) IN
                  IF ~r.ok THEN r ELSE At(object_val(r.value), r.pos)
      [] OTHER -> DecErr("invalid type tag", pos)

HeaderLen == 5

DecodeBytes(bs, maxDepth, maxDict, maxStr) ==
  IF Len(bs) < HeaderLen THEN DecErr("truncated header", Len(bs))
  ELSE IF SubSeq(bs, 1, 4) # Magic THEN DecErr("unknown magic", 0)
  ELSE IF bs[5] # Version THEN DecErr("unsupported version", 4)
  ELSE IF Len(bs) < HeaderLen + 4 THEN DecErr("truncated dictionary", HeaderLen)
  ELSE LET n == ReadU32(bs, HeaderLen) IN
    IF n > maxDict THEN DecErr("dictionary too large", HeaderLen)
    ELSE IF n > Len(bs) - (HeaderLen + 4)
      THEN DecErr("truncated dictionary", HeaderLen + 4)
    ELSE LET d == ReadDict(bs, HeaderLen + 4, n, maxStr, <<>>) IN
      IF ~d.ok THEN d
      ELSE LET r == DecodeData(bs, d.pos, 1, d.value, maxDepth, maxStr) IN
        IF ~r.ok THEN r
        ELSE IF r.pos # Len(bs) THEN DecErr("trailing bytes", r.pos)
        ELSE Ok(r.value)

(***************************************************************************)
(* Options.  An option is absent (undefined) or a number.                  *)
(***************************************************************************)
NoOpt  == [has |-> FALSE, n |-> 0]
Num(n) == [has |-> TRUE, n |-> n]

DefaultMaxDepth          == 256
DefaultMaxDictionarySize == 65536
DefaultMaxStringLength   == 1000000

\* opts.Has(name) && opts.Get(name).IsNumber() ? Uint32Value() : default
OptOr(opt, default) == IF opt.has THEN opt.n ELSE default

\* Largest value given to an option by a caller of the model.
MaxOptValue == 1

OptValues == {NoOpt} \cup {Num(n) : n \in 1..MaxOptValue}

EncodeOptions == [maxDepth : OptValues]

\* decodeSync options: none, or one of the three bounds set.
DecodeOptions ==
  [maxDepth : OptValues, maxDictionarySize : {NoOpt}, maxStringLength : {NoOpt}]
    \cup [maxDepth : {NoOpt}, maxDictionarySize : OptValues, maxStringLength : {NoOpt}]
    \cup [maxDepth : {NoOpt}, maxDictionarySize : {NoOpt}, maxStringLength : OptValues]
NoDecodeOptions == [maxDepth |-> NoOpt, maxDictionarySize |-> NoOpt,
                    maxStringLength |-> NoOpt]

(***************************************************************************)
(* The addon: NativeEncode and NativeDecode of binding.cc.  A C++          *)
(* exception reaches JavaScript as a plain Error carrying e.what().        *)
(***************************************************************************)
NativeEncode(value, opts) ==
  LET max_depth == OptOr(opts.maxDepth, DefaultMaxDepth)
      r == EncodeValue(NapiToValue(value), max_depth)
  IN  IF r.ok THEN r ELSE Err("Error", r.message, NoOffset)

\* NativeDecode with max_dict left at its default whatever the options say
NativeDecodeNoDictBound(buf, opts) ==
  LET max_depth == OptOr(opts.maxDepth, DefaultMaxDepth)
      max_dict  == DefaultMaxDictionarySize
      max_str   == OptOr(opts.maxStringLength, DefaultMaxStringLength)
      r == DecodeBytes(buf, max_depth, max_dict, max_str)
  IN  IF r.ok THEN Ok(ValueToNapi(r.value)) ELSE Err("Error", r.message, NoOffset)

NativeDecode(buf, opts) ==
  LET max_depth == OptOr(opts.maxDepth, DefaultMaxDepth)
      max_dict  == OptOr(opts.maxDictionarySize, DefaultMaxDictionarySize)
      max_str   == OptOr(opts.maxStringLength, DefaultMaxStringLength)
      r == DecodeBytes(buf, max_depth, max_dict, max_str)
  IN  IF r.ok THEN Ok(ValueToNapi(r.value)) ELSE Err("Error", r.message, NoOffset)

(***************************************************************************)
(* The JavaScript implementation (encoder.js, decoder.js): the same format *)
(* engine, throwing the typed errors with their location.                  *)
(***************************************************************************)
encodeBinary(value, opts) ==
  EncodeValue(NapiToValue(value), OptOr(opts.maxDepth, DefaultMaxDepth))

decodeBinary(buf, opts) ==
  LET r == DecodeBytes(buf, OptOr(opts.maxDepth, DefaultMaxDepth),
                       OptOr(opts.maxDictionarySize, DefaultMaxDictionarySize),
                       OptOr(opts.maxStringLength, DefaultMaxStringLength))
  IN  IF r.ok THEN Ok(ValueToNapi(r.value)) ELSE r

(***************************************************************************)
(* native.ts: loadNative and its module-level cache.                       *)
(***************************************************************************)
AddonStates == {"built", "incomplete", "absent"}

\* A loader that takes whatever require returns, without looking at its
\* exports
LoadAddonUnchecked(addonState) == IF addonState = "absent" THEN "null" ELSE "binding"

\* What a first loadNative call returns: the binding when require succeeds
\* and all four exports are functions, null otherwise.
LoadAddon(addonState) == IF addonState = "built" THEN "binding" ELSE "null"

\* loadNative that keeps a binding it found but looks again after a failed
\* load (the test `if (cached)` in place of `if (cached !== undefined)`)
loadNativeRetryNull(cache, addonState) ==
  IF cache = "binding" THEN cache
  ELSE IF addonState = "built" THEN "binding" ELSE "null"

\* loadNative without its cache: the addon is looked up at every call
loadNativeNoCache(cache, addonState) ==
  IF addonState = "built" THEN "binding" ELSE "null"

loadNative(cache, addonState) ==
  IF cache # "undefined" THEN cache ELSE LoadAddon(addonState)

(***************************************************************************)
(* index.ts: encode and decodeSync.                                        *)
(***************************************************************************)
encode(native, value, opts) ==
  IF native = "binding"
    THEN NativeEncode(value, [maxDepth |-> opts.maxDepth])
    ELSE encodeBinary(value, opts)

decodeSync(native, buffer, opts) ==
  IF native = "binding"
    THEN LET r == NativeDecode(buffer,
                    [maxDepth |-> opts.maxDepth,
                     maxDictionarySize |-> opts.maxDictionarySize,
                     maxStringLength |-> opts.maxStringLength])
         IN  IF r.ok THEN r ELSE Err("DecodeError", r.message, NoOffset)
    ELSE decodeBinary(buffer, opts)

(***************************************************************************)
(* The Values of the model.                                                *)
(***************************************************************************)
I64(n)  == PadLeft(NatToBits(n, 30), 64)
Bit(k)  == Tup([i \in 1..64 |-> IF i = 64 - k THEN 1 ELSE 0], 64)
OrBits(a, b) == Tup([i \in 1..64 |-> IF a[i] = 1 \/ b[i] = 1 THEN 1 ELSE 0], 64)

\* Small integers run over -MaxSmallInt..MaxSmallInt.
MaxSmallInt == 2

SafeLimit == Bit(53)
MaxInt64  == NotBits(Bit(63))
MinInt64  == Bit(63)

IntBits ==
  {I64(n) : n \in 0..MaxSmallInt} \cup {NegBits(I64(n)) : n \in 1..MaxSmallInt}
    \cup {SafeLimit, NegBits(SafeLimit), OrBits(SafeLimit, I64(1)),
          NegBits(OrBits(SafeLimit, I64(1))), Bit(60), MaxInt64, MinInt64}

DblOne       == Int64ToDouble(I64(1))
DblOneHalf   == MkDouble(0, 1023, <<1>> \o Zeros(51))
DblNegZero   == MkDouble(1, 0, Zeros(52))
DblInfinity  == MkDouble(0, 2047, Zeros(52))
DblOtherNaN  == MkDouble(1, 2047, Zeros(51) \o <<1>>)

FloatBits ==
  {DblOne, DblOneHalf, DblNegZero, Zeros(64), DblInfinity, CanonicalNaN,
   DblOtherNaN, Int64ToDouble(Bit(60)), Int64ToDouble(NegBits(I64(2)))}

Str_a     == <<97>>
Str_b     == <<98>>
Str_2     == <<50>>
Str_10    == <<49, 48>>
Str_eacute == <<195, 169>>
Str_emoji == <<240, 159, 152, 128>>

Scalars ==
  {null_val, bool_val(TRUE), bool_val(FALSE)}
    \cup {int_val(i) : i \in IntBits}
    \cup {float_val(d) : d \in FloatBits}
    \cup {string_val(x) : x \in {<<>>, Str_a, Str_eacute, Str_emoji}}

\* Deepest nesting of the arrays built by Nest.
MaxNest == 2

RECURSIVE Nest(_, _)
Nest(k, v) == IF k = 0 THEN v ELSE array_val(<<Nest(k - 1, v)>>)

Containers ==
  {array_val(<<>>), object_val(<<>>),
   array_val(<<int_val(I64(1)), float_val(DblOne), float_val(DblOneHalf)>>),
   object_val(<<<<Str_b, int_val(I64(2))>>, <<Str_a, int_val(I64(1))>>>>),
   object_val(<<<<Str_a, float_val(DblOne)>>>>),
   object_val(<<<<Str_b, null_val>>, <<Str_10, string_val(Str_a)>>,
                <<Str_2, bool_val(TRUE)>>>>),
   object_val(<<<<Str_b, object_val(<<<<Str_eacute, int_val(I64(1))>>,
                                      <<Str_a, array_val(<<null_val>>)>>>>)>>,
                <<Str_a, float_val(DblNegZero)>>>>)}
    \cup {Nest(k, null_val) : k \in 1..MaxNest}

Values == Scalars \cup Containers

\* The orders in which the pairs of a sequence can be listed.
Reorder(pairs) ==
  {Tup([i \in 1..Len(pairs) |-> pairs[p[i]]], Len(pairs)) :
     p \in {q \in [1..Len(pairs) -> 1..Len(pairs)] :
              \A i, j \in 1..Len(pairs) : i # j => q[i] # q[j]}}

RECURSIVE SeqProduct(_)
\* The sequences that take their i-th element from the i-th set.
SeqProduct(ss) ==
  IF Len(ss) = 0 THEN {<<>>}
  ELSE {<<h>> \o t : h \in ss[1], t \in SeqProduct(Tail(ss))}

RECURSIVE Reorderings(_)
\* The Values structurally equal to v: the same tree with the pairs of its
\* Objects listed in any order.
Reorderings(v) ==
  CASE v.type = "Array" ->
         {array_val(a) :
            a \in SeqProduct(Tup([i \in 1..Len(v.arr) |-> Reorderings(v.arr[i])],
                                 Len(v.arr)))}
    [] v.type = "Object" ->
         {object_val(o) :
            o \in UNION {Reorder(c) :
                   c \in SeqProduct(Tup([i \in 1..Len(v.obj) |->
                           {<<v.obj[i][1], x>> : x \in Reorderings(v.obj[i][2])}],
                         Len(v.obj)))}}
    [] OTHER -> {v}

(***************************************************************************)
(* The process: one module instance of index.ts and its callers.           *)
(***************************************************************************)
VARIABLES
  addon,    \* what is at build/Release/koda_js.node
  cached,   \* native.ts: cached
  val,      \* the Value the caller works with
  enc,      \* the latest encode (or stringify) call and its outcome
  dec,      \* the latest decodeSync (or parse) call and its outcome
  jobs,     \* the decode jobs submitted so far, in submission order
  wcache,   \* per worker, decoder-worker.ts: cachedNative
  inbox,    \* per worker, the messages posted to it and not yet handled
  replies,  \* per worker, the messages it posted, not yet received
  busy,     \* pool: per worker, the id of the job it runs (0 when idle)
  queue,    \* pool: the ids of the jobs waiting for a worker
  pool,     \* pool: its state ("open", "draining" once destroy is called,
            \* "released"), its size, the jobs destroy found unsettled and
            \* the jobs submitted after destroy
  log,      \* pool: the dispatches made, in order
  written,  \* streams: what was written towards the decode stream, in order
  wire,     \* streams: the bytes written and not yet delivered
  stream    \* streams: the decode stream

codecVars == <<addon, cached, val, enc, dec>>
asyncVars == <<jobs, wcache, inbox, replies>>
poolVars  == <<busy, queue, pool, log>>
streamVars == <<written, wire, stream>>
vars == <<addon, cached, val, enc, dec, jobs, wcache, inbox, replies,
          busy, queue, pool, log, written, wire, stream>>

NoCall == [op |-> "none"]

Call(op, native, arg, opts, result) ==
  [op |-> op, native |-> native, arg |-> arg, opts |-> opts, result |-> result]

\* The canonical document of a Value, as any conforming encoder writes it.
Document(v) == EncodeValue(v, DefaultMaxDepth).value

\* The buffers a caller hands to decodeSync: the output of the latest encode
\* call, the document of its Value, and that document cut short or followed
\* by one more byte.
Buffers ==
  LET doc == Document(val) IN
  {doc, SubSeq(doc, 1, Len(doc) - 1), doc \o <<0>>}
    \cup (IF enc.op = "encode" /\ enc.result.ok THEN {enc.result.value} ELSE {})

\* Most workers any specification starts.
MaxWorkers == 2

WorkerIds == 1..MaxWorkers

InitCodec ==
  /\ addon \in AddonStates
  /\ cached = "undefined"
  /\ enc = NoCall
  /\ dec = NoCall

InitWorkers ==
  /\ jobs = <<>>
  /\ wcache = [w \in WorkerIds |-> "undefined"]
  /\ inbox = [w \in WorkerIds |-> <<>>]
  /\ replies = [w \in WorkerIds |-> <<>>]
  /\ busy = [w \in WorkerIds |-> 0]
  /\ queue = <<>>
  /\ pool = [state |-> "open", size |-> MaxWorkers, owed |-> {}, late |-> {}]
  /\ log = <<>>

\* No stream has been created.
NoStreams ==
  /\ written = <<>>
  /\ wire = <<>>
  /\ stream = [mode |-> "none"]

Init ==
  /\ InitCodec
  /\ val \in Values
  /\ InitWorkers
  /\ NoStreams

\* An int64_t that a JavaScript number holds exactly: at most 53 significant
\* bits.
IntIsExact(i) ==
  LET mag == IF i[1] = 1 THEN NegBits(i) ELSE i
      p   == FirstOne(mag)
  IN  \A k \in (p + 53)..64 : mag[k] = 0

RECURSIVE IntsOf(_)
IntsOf(v) ==
  CASE v.type = "Int"    -> {v.i}
    [] v.type = "Array"  -> UNION {IntsOf(v.arr[i]) : i \in 1..Len(v.arr)}
    [] v.type = "Object" -> UNION {IntsOf(v.obj[i][2]) : i \in 1..Len(v.obj)}
    [] OTHER -> {}

\* The caller can hold v as a JavaScript value without loss.
JsHolds(v) == \A i \in IntsOf(v) : IntIsExact(i)

\* encode(value, options), on the caller's Value or on a structurally equal
\* one.
CallEncode ==
  \E w \in Reorderings(val), o \in EncodeOptions :
    LET native == loadNative(cached, addon)
        arg == ValueToNapi(w)
    IN  /\ JsHolds(val)
        /\ cached' = native
        /\ enc' = Call("encode", native, arg, o, encode(native, arg, o))
        /\ UNCHANGED <<addon, val, dec>>
        /\ UNCHANGED <<asyncVars, poolVars, streamVars>>

\* decodeSync(b, o)
DecodeSyncCall(b, o) ==
  LET native == loadNative(cached, addon) IN
  /\ cached' = native
  /\ dec' = Call("decodeSync", native, b, o, decodeSync(native, b, o))
  /\ UNCHANGED <<addon, val, enc>>

\* Inputs that declare more than the default bounds allow: a dictionary of
\* DefaultMaxDictionarySize + 1 entries, and a root String of
\* DefaultMaxStringLength + 1 bytes.  Both are cut right after the count.
Oversized ==
  {Magic \o <<Version>> \o U32(DefaultMaxDictionarySize + 1),
   Magic \o <<Version>> \o U32(0) \o <<TagString>>
     \o U32(DefaultMaxStringLength + 1)}

\* decodeSync(buffer, options)
CallDecodeSync ==
  /\ \E b \in Buffers \cup Oversized, o \in DecodeOptions : DecodeSyncCall(b, o)
  /\ UNCHANGED <<asyncVars, poolVars, streamVars>>

Next ==
  \/ CallEncode
  \/ CallDecodeSync

Spec == Init /\ [][Next]_vars

(***************************************************************************)
(* decoder-worker.ts: the worker thread.  Each worker is its own module    *)
(* instance, with its own cachedNative.                                    *)
(***************************************************************************)
\* getNative(): the binding this worker uses and caches
getNative(cache, addonState) ==
  IF cache # "undefined" THEN cache ELSE loadNative("undefined", addonState)

\* doDecode with the string bound left out of the options it hands on.
doDecodeNoStringBound(binding, buffer, options) ==
  IF binding = "binding"
    THEN NativeDecode(buffer, [maxDepth |-> options.maxDepth,
                               maxDictionarySize |-> options.maxDictionarySize,
                               maxStringLength |-> NoOpt])
    ELSE decodeBinary(buffer, [options EXCEPT !.maxStringLength = NoOpt])

\* doDecode(buffer, options): the three bounds are handed on as they came
doDecode(binding, buffer, options) ==
  IF binding = "binding"
    THEN NativeDecode(buffer, [maxDepth |-> options.maxDepth,
                               maxDictionarySize |-> options.maxDictionarySize,
                               maxStringLength |-> options.maxStringLength])
    ELSE decodeBinary(buffer, options)

\* A handler without the catch: what doDecode throws escapes, nothing is
\* posted.
WorkerReplyNoCatch(binding, msg) ==
  LET r == doDecode(binding, msg.buffer, msg.options) IN
  IF r.ok THEN <<[id |-> msg.id, kind |-> "value", value |-> r.value]>>
          ELSE <<>>

\* What the message handler posts for msg: {id, value}, or {id, error} with
\* the message of what doDecode threw.
WorkerReply(binding, msg) ==
  LET r == doDecode(binding, msg.buffer, msg.options) IN
  IF r.ok THEN <<[id |-> msg.id, kind |-> "value", value |-> r.value]>>
          ELSE <<[id |-> msg.id, kind |-> "error", error |-> r.message]>>

\* A handler that serves the newest message posted to worker w first
WorkerHandleNewestFirst(w) ==
  /\ inbox[w] # <<>>
  /\ LET binding == getNative(wcache[w], addon) IN
     /\ wcache' = [wcache EXCEPT ![w] = binding]
     /\ replies' = [replies EXCEPT
                      ![w] = @ \o WorkerReply(binding, inbox[w][Len(inbox[w])])]
  /\ inbox' = [inbox EXCEPT ![w] = SubSeq(@, 1, Len(@) - 1)]
  /\ UNCHANGED <<jobs, codecVars, poolVars, streamVars>>

\* parentPort.on('message', ...) of worker w, for the oldest message posted
\* to it
WorkerHandle(w) ==
  /\ inbox[w] # <<>>
  /\ LET binding == getNative(wcache[w], addon) IN
     /\ wcache' = [wcache EXCEPT ![w] = binding]
     /\ replies' = [replies EXCEPT
                      ![w] = @ \o WorkerReply(binding, Head(inbox[w]))]
  /\ inbox' = [inbox EXCEPT ![w] = Tail(@)]
  /\ UNCHANGED <<jobs, codecVars, poolVars, streamVars>>

(***************************************************************************)
(* decode(buffer, options): one worker per call; the main thread posts the *)
(* job and settles the promise with what the worker posts back.            *)
(***************************************************************************)
\* The structured clone of a JavaScript value, as postMessage makes it.
RECURSIVE StructuredClone(_)
StructuredClone(js) ==
  IF js.t = "array"
    THEN JsArray(Tup([i \in 1..Len(js.elems) |->
                        StructuredClone(js.elems[i])], Len(js.elems)))
  ELSE IF js.t = "object"
    THEN JsObject(Tup([i \in 1..Len(js.props) |->
                         <<js.props[i][1], StructuredClone(js.props[i][2])>>],
                      Len(js.props)))
  ELSE js

\* Most decode calls made.
MaxCalls == 1

NoOutcome == [op |-> "none"]

Job(buffer, options, state, outcome) ==
  [buffer |-> buffer, options |-> options, state |-> state,
   outcome |-> outcome]

\* The promise of job id settled with the message a worker posted.
Settle(js, reply) ==
  [js EXCEPT ![reply.id] =
     IF reply.kind = "value"
       THEN Job(@.buffer, @.options, "resolved", StructuredClone(reply.value))
       ELSE Job(@.buffer, @.options, "rejected",
                Err("DecodeError", reply.error, NoOffset))]

\* decode(buffer, options): worker Len(jobs) + 1 is started for this call
CallDecode ==
  /\ Len(jobs) < MaxCalls
  /\ \E b \in Buffers, o \in DecodeOptions :
       LET id == Len(jobs) + 1 IN
       /\ jobs' = Append(jobs, Job(b, o, "running", NoOutcome))
       /\ inbox' = [inbox EXCEPT
                      ![id] = <<[id |-> id, buffer |-> b, options |-> o]>>]
  /\ UNCHANGED <<wcache, replies, codecVars, poolVars, streamVars>>

\* worker.on('message', ...) on the main thread, for worker w of decode
MainReceive(w) ==
  /\ replies[w] # <<>>
  /\ jobs' = Settle(jobs, Head(replies[w]))
  /\ replies' = [replies EXCEPT ![w] = Tail(@)]
  /\ UNCHANGED <<wcache, inbox, codecVars, poolVars, streamVars>>

\* decodeSync on a buffer and options that decode was also called with
CallDecodeSyncSame ==
  /\ \E j \in 1..Len(jobs) : DecodeSyncCall(jobs[j].buffer, jobs[j].options)
  /\ UNCHANGED <<asyncVars, poolVars, streamVars>>

\* The values the asynchronous decode is exercised on.
AsyncValues ==
  {null_val, int_val(I64(1)), int_val(MaxInt64), float_val(DblOneHalf),
   string_val(Str_eacute), array_val(<<string_val(Str_a)>>),
   object_val(<<<<Str_b, array_val(<<>>)>>, <<Str_a, null_val>>>>)}

InitAsync ==
  /\ InitCodec
  /\ val \in AsyncValues
  /\ InitWorkers
  /\ NoStreams

NextAsync ==
  \/ CallDecode
  \/ \E w \in WorkerIds : WorkerHandle(w)
  \/ \E w \in WorkerIds : MainReceive(w)
  \/ CallDecodeSyncSame

SpecAsync == InitAsync /\ [][NextAsync]_vars

(***************************************************************************)
(* createDecoderPool({poolSize}): a fixed set of workers, a FIFO queue of  *)
(* waiting jobs, and destroy, which drains before it releases the workers. *)
(***************************************************************************)
\* Most jobs submitted to the pool.
MaxPoolJobs == 3

PoolWorkers(p) == 1..p.size

IdleWorkers(p, b) == {w \in PoolWorkers(p) : b[w] = 0}

FirstIdle(p, b) ==
  CHOOSE w \in IdleWorkers(p, b) : \A x \in IdleWorkers(p, b) : w <= x

Last(q) == q[Len(q)]

Front(q) == SubSeq(q, 1, Len(q) - 1)

\* One dispatch: job id leaves the queue q for worker w.
DispatchOne(st, id, q, w) ==
  [st EXCEPT
     !.queue = q,
     !.busy = [@ EXCEPT ![w] = id],
     !.inbox = [@ EXCEPT ![w] = Append(@, [id |-> id,
                                           buffer |-> st.jobs[id].buffer,
                                           options |-> st.jobs[id].options])],
     !.jobs = [@ EXCEPT ![id] = Job(@.buffer, @.options, "running", NoOutcome)],
     !.log = Append(@, [id |-> id, worker |-> w,
                        idle |-> IdleWorkers(st.pool, st.busy),
                        behind |-> q])]

\* The dispatch loop taking the newest waiting job first.
RECURSIVE DispatchNewestFirst(_)
DispatchNewestFirst(st) ==
  IF st.queue = <<>> \/ IdleWorkers(st.pool, st.busy) = {}
    THEN st
    ELSE DispatchNewestFirst(DispatchOne(st, Last(st.queue), Front(st.queue),
                                         FirstIdle(st.pool, st.busy)))

\* The dispatch loop: while a job waits and a worker is idle, the oldest
\* waiting job goes to the first idle worker.
RECURSIVE Dispatch(_)
Dispatch(st) ==
  IF st.queue = <<>> \/ IdleWorkers(st.pool, st.busy) = {}
    THEN st
    ELSE Dispatch(DispatchOne(st, Head(st.queue), Tail(st.queue),
                              FirstIdle(st.pool, st.busy)))

\* destroy has been called and nothing is waiting or running any more: the
\* workers are released.
Release(st) ==
  IF st.pool.state = "draining" /\ st.queue = <<>>
       /\ IdleWorkers(st.pool, st.busy) = PoolWorkers(st.pool)
    THEN [st EXCEPT !.pool.state = "released"]
    ELSE st

PoolState == [jobs |-> jobs, inbox |-> inbox, busy |-> busy, queue |-> queue,
              pool |-> pool, log |-> log]

SetPool(st) ==
  /\ jobs' = st.jobs
  /\ inbox' = st.inbox
  /\ busy' = st.busy
  /\ queue' = st.queue
  /\ pool' = st.pool
  /\ log' = st.log

PoolDestroyed == Err("Error", "pool destroyed", NoOffset)

\* pool.decode(buffer, options)
PoolDecode ==
  /\ Len(jobs) < MaxPoolJobs
  /\ \E b \in {Document(val), Front(Document(val))} :
       LET id == Len(jobs) + 1 IN
       IF pool.state # "open"
         THEN SetPool([PoolState EXCEPT
                !.jobs = Append(@, Job(b, NoDecodeOptions, "rejected",
                                       PoolDestroyed)),
                !.pool.late = @ \cup {id}])
         ELSE SetPool(Dispatch([PoolState EXCEPT
                !.jobs = Append(@, Job(b, NoDecodeOptions, "queued", NoOutcome)),
                !.queue = Append(@, id)]))
  /\ UNCHANGED <<wcache, replies, codecVars, streamVars>>

\* worker.on('message', ...) on the main thread, for worker w of the pool
PoolReceive(w) ==
  /\ replies[w] # <<>>
  /\ SetPool(Release(Dispatch([PoolState EXCEPT
       !.jobs = Settle(@, Head(replies[w])),
       !.busy = [@ EXCEPT ![w] = 0]])))
  /\ replies' = [replies EXCEPT ![w] = Tail(@)]
  /\ UNCHANGED <<wcache, codecVars, streamVars>>

Unsettled(js) == {j \in 1..Len(js) : js[j].state \in {"queued", "running"}}

\* pool.destroy()
PoolDestroy ==
  /\ pool.state = "open"
  /\ SetPool(Release([PoolState EXCEPT !.pool.state = "draining",
                                       !.pool.owed = Unsettled(jobs)]))
  /\ UNCHANGED <<wcache, replies, codecVars, streamVars>>

InitPool ==
  /\ addon \in {"built", "absent"}
  /\ cached = "undefined"
  /\ enc = NoCall
  /\ dec = NoCall
  /\ val = string_val(Str_a)
  /\ jobs = <<>>
  /\ wcache = [w \in WorkerIds |-> "undefined"]
  /\ inbox = [w \in WorkerIds |-> <<>>]
  /\ replies = [w \in WorkerIds |-> <<>>]
  /\ busy = [w \in WorkerIds |-> 0]
  /\ queue = <<>>
  /\ \E n \in WorkerIds :
       pool = [state |-> "open", size |-> n, owed |-> {}, late |-> {}]
  /\ log = <<>>
  /\ NoStreams

NextPool ==
  \/ PoolDecode
  \/ PoolDestroy
  \/ \E w \in WorkerIds : WorkerHandle(w)
  \/ \E w \in WorkerIds : PoolReceive(w)

SpecPool == InitPool /\ [][NextPool]_vars

(***************************************************************************)
(* createEncodeStream and createDecodeStream: records framed as            *)
(* [LEB128 length][payload]; the decode stream reassembles them from       *)
(* chunks of any size.                                                     *)
(***************************************************************************)
\* Unsigned LEB128: 7 bits a byte, low bits first, 0x80 on all but the last.
RECURSIVE Leb128(_)
Leb128(n) ==
  IF n < 128 THEN <<n>> ELSE <<128 + (n % 128)>> \o Leb128(n \div 128)

Frame(payload) == Leb128(Len(payload)) \o payload

DefaultMaxFrameSize == 1048576

MaxVarintBytes == 10

\* Lengths are followed up to here; any larger one is above every
\* maxFrameSize.
LengthCap == Pow2(30)

\* The length after the byte b, the k-th of the varint (from 0), is added.
AddBits(len, b, k) ==
  IF k >= 4
    THEN IF b % 128 = 0 THEN len ELSE LengthCap
    ELSE len + ((b % 128) * Pow2(7 * k))

NoError == [ok |-> TRUE]

\* createDecodeStream({maxFrameSize})
NewDecodeStream(maxFrameSize) ==
  [mode |-> "READ_LEN", len |-> 0, nbytes |-> 0, buf |-> <<>>,
   frameAt |-> 0, seen |-> 0, late |-> 0, calls |-> 0, emitted |-> <<>>,
   destroyed |-> FALSE, ended |-> FALSE, error |-> NoError,
   maxFrameSize |-> OptOr(maxFrameSize, DefaultMaxFrameSize)]

\* A frame-level error: the stream is destroyed, what it buffered is dropped.
StreamFail(st, msg, at) ==
  [st EXCEPT !.destroyed = TRUE, !.error = Err("DecodeError", msg, at),
             !.mode = "READ_LEN", !.len = 0, !.nbytes = 0, !.buf = <<>>]

\* The frame's payload was handed to the decoder, with outcome r: its Value
\* is emitted, or its error destroys the stream.
Emit(st, r) ==
  IF r.ok
    THEN [st EXCEPT !.emitted = Append(@, r.value), !.calls = @ + 1,
                    !.mode = "READ_LEN", !.len = 0, !.nbytes = 0,
                    !.buf = <<>>, !.frameAt = st.seen]
    ELSE StreamFail([st EXCEPT !.calls = @ + 1], r.message,
                    IF r.offset = NoOffset THEN st.seen - Len(st.buf)
                    ELSE st.seen - Len(st.buf) + r.offset)

\* READ_PAYLOAD with the whole frame buffered: the decoder is called on
\* exactly the frame's bytes.
EmitFrame(st, native) ==
  CHOOSE y \in {Emit(s, r) :
                  s \in {st},
                  r \in {decodeSync(native, st.buf, NoDecodeOptions)}} : TRUE

\* The state machine on one more byte b of a stream that is not destroyed.
AcceptLive(st0, b, native) ==
  LET st == [st0 EXCEPT !.seen = @ + 1] IN
  IF st.mode = "READ_LEN"
    THEN LET len == AddBits(st.len, b, st.nbytes) IN
         IF b >= 128
           THEN IF st.nbytes + 1 >= MaxVarintBytes
                  THEN StreamFail(st, "malformed varint", st.frameAt)
                  ELSE [st EXCEPT !.len = len, !.nbytes = @ + 1]
         ELSE IF len > st.maxFrameSize
           THEN StreamFail(st, "frame too large", st.frameAt)
         ELSE IF len = 0
           THEN EmitFrame([st EXCEPT !.len = 0, !.buf = <<>>], native)
         ELSE [st EXCEPT !.mode = "READ_PAYLOAD", !.len = len, !.nbytes = 0,
                         !.buf = <<>>]
    ELSE LET buf == Append(st.buf, b) IN
         IF Len(buf) < st.len
           THEN [st EXCEPT !.buf = buf]
           ELSE EmitFrame([st EXCEPT !.buf = buf], native)

\* A stream that goes on reading after a frame-level error.
AcceptByteAfterError(st, b, native) == AcceptLive(st, b, native)

\* One more byte arrives: a destroyed stream drops it.
AcceptByte(st, b, native) ==
  IF st.destroyed
    THEN [st EXCEPT !.late = @ + 1]
    ELSE AcceptLive(st, b, native)

\* transform(chunk): the bytes of the chunk from the i-th on, one after the
\* other
RECURSIVE TransformFrom(_, _, _, _)
TransformFrom(st, chunk, i, native) ==
  IF i > Len(chunk)
    THEN st
    ELSE CHOOSE r \in {TransformFrom(AcceptByte(s, chunk[i], native),
                                     chunk, i + 1, native) : s \in {st}} : TRUE

\* transform(chunk)
Transform(st, chunk, native) ==
  CHOOSE r \in {TransformFrom(st, c, 1, native) : c \in {chunk}} : TRUE

\* flush(): the input ended; a partial frame in the buffer is an error
Flush(st) ==
  LET e == [st EXCEPT !.ended = TRUE] IN
  IF ~st.destroyed /\ (st.mode = "READ_PAYLOAD" \/ st.nbytes > 0)
    THEN StreamFail(e, "truncated stream", st.frameAt)
    ELSE e

\* Number of strings in the long array written: its frame has a two-byte
\* length.
LongCount == 10

Str_word == <<107, 111, 100, 97, 45, 106, 115, 33>>

LongArray == array_val(Tup([i \in 1..LongCount |-> string_val(Str_word)],
                           LongCount))

\* The Values written to the encode stream.
StreamValues ==
  {object_val(<<<<Str_a, int_val(I64(1))>>>>), float_val(DblNegZero),
   LongArray}

\* Byte sequences that are not frames: a varint that does not end, a frame
\* whose payload is no document, the start of a frame of five bytes.
BadVarint   == Tup([i \in 1..(MaxVarintBytes + 1) |-> 128], MaxVarintBytes + 1)
BadPayload  == <<1, 0>>
PartialFrame == <<5, 75>>

BadChunks == {BadVarint, BadPayload, PartialFrame}

\* Most items written to a stream.
MaxItems == 2

\* The small maxFrameSize a decode stream is created with.
SmallFrameSize == 16

\* Largest chunk delivered at once.
MaxChunk == 8

ChunkSizes == {n \in 1..MaxChunk : n <= Len(wire)}

\* encodeStream.write(v), piped to the decode stream
StreamWrite ==
  /\ Len(written) < MaxItems
  /\ ~stream.ended
  /\ \E v \in StreamValues :
       LET native == loadNative(cached, addon)
           r == encode(native, ValueToNapi(v), [maxDepth |-> NoOpt]) IN
       /\ r.ok
       /\ cached' = native
       /\ wire' = wire \o Frame(r.value)
       /\ written' = Append(written, [kind |-> "value", v |-> v])
  /\ UNCHANGED <<addon, val, enc, dec, stream, asyncVars, poolVars>>

\* decodeStream.write(bytes) by a producer that does not frame
StreamWriteRaw ==
  /\ Len(written) < MaxItems
  /\ ~stream.ended
  /\ \E b \in BadChunks :
       /\ wire' = wire \o b
       /\ written' = Append(written, [kind |-> "raw", bytes |-> b])
  /\ UNCHANGED <<codecVars, stream, asyncVars, poolVars>>

\* The next chunk reaches the decode stream.
StreamFeed ==
  /\ wire # <<>>
  /\ \E n \in ChunkSizes :
       LET native == loadNative(cached, addon) IN
       /\ cached' = native
       /\ stream' = Transform(stream, SubSeq(wire, 1, n), native)
       /\ wire' = SubSeq(wire, n + 1, Len(wire))
  /\ UNCHANGED <<addon, val, enc, dec, written, asyncVars, poolVars>>

\* The input of the decode stream ends.
StreamEnd ==
  /\ wire = <<>>
  /\ ~stream.ended
  /\ stream' = Flush(stream)
  /\ UNCHANGED <<codecVars, written, wire, asyncVars, poolVars>>

InitStream ==
  /\ addon \in {"built", "absent"}
  /\ cached = "undefined"
  /\ enc = NoCall
  /\ dec = NoCall
  /\ val = null_val
  /\ InitWorkers
  /\ written = <<>>
  /\ wire = <<>>
  /\ stream \in {NewDecodeStream(NoOpt), NewDecodeStream(Num(SmallFrameSize))}

NextStream ==
  \/ StreamWrite
  \/ StreamWriteRaw
  \/ StreamFeed
  \/ StreamEnd

SpecStream == InitStream /\ [][NextStream]_vars


(***************************************************************************)
(* The text format (SPEC.md 4): the serializer.  Text is a sequence of     *)
(* UTF-8 bytes.  Numbers of the model are Ints below 2^30 in magnitude and *)
(* Floats with a short mantissa, so that their decimal forms are computed  *)
(* exactly.                                                                *)
(***************************************************************************)
\* (Where a result is used more than once it is bound first, as the one
\* element of a set, so that it is computed once.)
Word_true  == <<116, 114, 117, 101>>
Word_false == <<102, 97, 108, 115, 101>>
Word_null  == <<110, 117, 108, 108>>

IsLetter(c)     == (c >= 65 /\ c <= 90) \/ (c >= 97 /\ c <= 122)
IsIdentStart(c) == IsLetter(c) \/ c = 95
IsIdentPart(c)  == IsIdentStart(c) \/ IsDigit(c) \/ c = 45

\* identifier = ( letter | "_" ) ( letter | digit | "_" | "-" )*
IsIdentifier(s) ==
  /\ Len(s) > 0
  /\ IsIdentStart(s[1])
  /\ \A i \in 2..Len(s) : IsIdentPart(s[i])

HexDigit(n) == IF n < 10 THEN 48 + n ELSE 87 + n

\* One byte of a string inside double quotes.
EscapeByte(c) ==
  CASE c = 34 -> <<92, 34>>
    [] c = 92 -> <<92, 92>>
    [] c = 8  -> <<92, 98>>
    [] c = 12 -> <<92, 102>>
    [] c = 10 -> <<92, 110>>
    [] c = 13 -> <<92, 114>>
    [] c = 9  -> <<92, 116>>
    [] c < 32 -> <<92, 117, 48, 48, HexDigit(c \div 16), HexDigit(c % 16)>>
    [] OTHER  -> <<c>>

Quoted(s) ==
  <<34>> \o Concat(Tup([i \in 1..Len(s) |-> EscapeByte(s[i])], Len(s))) \o <<34>>

\* A key or a String: bare iff it is an identifier other than true, false
\* and null, double-quoted otherwise.
StringText(s) ==
  IF IsIdentifier(s) /\ s \notin {Word_true, Word_false, Word_null}
    THEN s ELSE Quoted(s)

RECURSIVE NatText(_)
NatText(n) == IF n < 10 THEN <<48 + n>> ELSE NatText(n \div 10) \o <<48 + (n % 10)>>

\* Int formatted as decimal.
IntText(i) ==
  IF i[1] = 1 THEN <<45>> \o NatText(BitsToNat(NegBits(i)))
  ELSE NatText(BitsToNat(i))

RECURSIVE Pow5(_)
Pow5(n) == IF n = 0 THEN 1 ELSE 5 * Pow5(n - 1)

\* Number of trailing zero bits of b.
TrailingZeros(b) ==
  IF IsZeroBits(b) THEN Len(b)
  ELSE Len(b) - (CHOOSE i \in 1..Len(b) :
                   b[i] = 1 /\ \A j \in (i + 1)..Len(b) : b[j] = 0)

\* digs with a decimal point m places from its end.
PointAt(digs, m) ==
  IF Len(digs) > m
    THEN SubSeq(digs, 1, Len(digs) - m) \o <<46>>
           \o SubSeq(digs, Len(digs) - m + 1, Len(digs))
    ELSE <<48, 46>> \o Tup([i \in 1..(m - Len(digs)) |-> 48], m - Len(digs)) \o digs

\* The decimal expansion of N * 2^p.
Dyadic(N, p) ==
  IF p >= 0 THEN NatText(N * Pow2(p)) \o <<46, 48>>
  ELSE (CHOOSE y \in {PointAt(b1, b2) :
            b1 \in {NatText(N * Pow5(0 - p))}, b2 \in {0 - p}} : TRUE)

\* The magnitude of a Float whose mantissa uses k fraction bits.
Magnitude(d, k) ==
  Dyadic(BitsToNat(<<1>> \o SubSeq(DblFrac(d), 1, k)), DblExp(d) - 1023 - k)

\* Float in its shortest decimal form that parses back to the same Float:
\* the exact expansion of mantissa * 2^exponent, always with a fraction.
FloatText(d) ==
  (IF DblSign(d) = 1 THEN <<45>> ELSE <<>>)
    \o (IF DblIsZero(d) THEN <<48, 46, 48>>
        ELSE CHOOSE y \in {Magnitude(d, k) :
                             k \in {52 - TrailingZeros(DblFrac(d))}} : TRUE)

RECURSIVE JoinWith(_, _)
JoinWith(ss, sep) ==
  IF Len(ss) = 0 THEN <<>>
  ELSE IF Len(ss) = 1 THEN ss[1]
  ELSE ss[1] \o sep \o JoinWith(Tail(ss), sep)

RECURSIVE Repeat(_, _)
Repeat(s, n) == IF n = 0 THEN <<>> ELSE s \o Repeat(s, n - 1)

RECURSIVE HasNonFinite(_)
\* v holds a NaN or an infinite Float.
HasNonFinite(v) ==
  CASE v.type = "Float"  -> DblExp(v.d) = 2047
    [] v.type = "Array"  -> \E i \in 1..Len(v.arr) : HasNonFinite(v.arr[i])
    [] v.type = "Object" -> \E i \in 1..Len(v.obj) : HasNonFinite(v.obj[i][2])
    [] OTHER -> FALSE

RECURSIVE Serialize(_, _, _, _)
\* The text of v at nesting level `level`: compact when ind is empty (single
\* spaces between elements), otherwise one element per line, indented by
\* ind per level, lines ended by nl and no trailing comma.
Serialize(v, ind, nl, level) ==
  LET Lines(inner) ==
        IF ind = <<>> THEN JoinWith(inner, <<32>>)
        ELSE nl \o JoinWith(Tup([i \in 1..Len(inner) |->
                                   Repeat(ind, level + 1) \o inner[i]],
                                 Len(inner)),
                            <<44>> \o nl)
               \o nl \o Repeat(ind, level)
      KeySep == IF ind = <<>> THEN <<58>> ELSE <<58, 32>>
  IN
  CASE v.type = "Null"   -> Word_null
    [] v.type = "Bool"   -> IF v.b THEN Word_true ELSE Word_false
    [] v.type = "Int"    -> IntText(v.i)
    [] v.type = "Float"  -> FloatText(v.d)
    [] v.type = "String" -> StringText(v.s)
    [] v.type = "Array"  ->
         IF Len(v.arr) = 0 THEN <<91, 93>>
         ELSE <<91>>
                \o (CHOOSE y \in {Lines(b1) :
                          b1 \in {Tup([i \in 1..Len(v.arr) |->
                                      Serialize(v.arr[i], ind, nl, level + 1)],
                                   Len(v.arr))}} : TRUE)
                \o <<93>>
    [] v.type = "Object" ->
         IF Len(v.obj) = 0 THEN <<123, 125>>
         ELSE <<123>>
                \o (CHOOSE y \in {Lines(b1) :
                          b1 \in {Tup([i \in 1..Len(v.obj) |->
                                      StringText(v.obj[i][1]) \o KeySep
                                        \o Serialize(v.obj[i][2], ind, nl, level + 1)],
                                   Len(v.obj))}} : TRUE)
                \o <<125>>

\* The engine's stringify: the pairs of an Object in their in-memory order.
StringifyValue(v, ind, nl) ==
  IF HasNonFinite(v) THEN Err("EncodeError", "non-finite number", NoOffset)
  ELSE Ok(Serialize(v, ind, nl, 0))

(***************************************************************************)
(* The text format: the parser.  Offsets count bytes from 0.  The texts of *)
(* the model hold numbers of at most nine digits whose value a Float holds *)
(* exactly.                                                                *)
(***************************************************************************)
TErr(msg, at) == [ok |-> FALSE, message |-> msg, offset |-> at]

IsSpace(c) == c \in {32, 9, 13, 10}

\* Offset of the end of the line comment running through offset pos.
RECURSIVE LineEnd(_, _)
LineEnd(bs, pos) ==
  IF pos >= Len(bs) \/ bs[pos + 1] = 10 THEN pos ELSE LineEnd(bs, pos + 1)

\* Offset just after the first "*/" at or after pos, or -1.
RECURSIVE BlockEnd(_, _)
BlockEnd(bs, pos) ==
  IF pos + 2 > Len(bs) THEN -1
  ELSE IF bs[pos + 1] = 42 /\ bs[pos + 2] = 47 THEN pos + 2
  ELSE BlockEnd(bs, pos + 1)

RECURSIVE SkipWs(_, _, _)
\* Past whitespace and comments, and past commas where they separate.
SkipWs(bs, pos, commas) ==
  IF pos >= Len(bs) THEN At(<<>>, pos)
  ELSE LET c == bs[pos + 1]
           d == IF pos + 2 <= Len(bs) THEN bs[pos + 2] ELSE 0
       IN  IF IsSpace(c) \/ (commas /\ c = 44) THEN SkipWs(bs, pos + 1, commas)
           ELSE IF c = 47 /\ d = 47 THEN SkipWs(bs, LineEnd(bs, pos), commas)
           ELSE IF c = 47 /\ d = 42
             THEN IF BlockEnd(bs, pos + 2) < 0
                    THEN TErr("unterminated comment", pos)
                    ELSE SkipWs(bs, BlockEnd(bs, pos + 2), commas)
           ELSE At(<<>>, pos)

RECURSIVE DigitRun(_, _)
\* Length of the run of digits from offset pos on.
DigitRun(bs, pos) ==
  IF pos < Len(bs) /\ IsDigit(bs[pos + 1]) THEN 1 + DigitRun(bs, pos + 1) ELSE 0

RECURSIVE IdentRun(_, _)
\* Length of the run of identifier bytes from offset pos on.
IdentRun(bs, pos) ==
  IF pos < Len(bs) /\ IsIdentPart(bs[pos + 1]) THEN 1 + IdentRun(bs, pos + 1) ELSE 0

IsHex(c) == IsDigit(c) \/ (c >= 65 /\ c <= 70) \/ (c >= 97 /\ c <= 102)
HexVal(c) == IF IsDigit(c) THEN c - 48 ELSE IF c >= 97 THEN c - 87 ELSE c - 55

\* The code unit of the four hex digits at offset pos, or -1.
HexUnit(bs, pos) ==
  IF pos + 4 <= Len(bs) /\ \A i \in 1..4 : IsHex(bs[pos + i])
    THEN 4096 * HexVal(bs[pos + 1]) + 256 * HexVal(bs[pos + 2])
           + 16 * HexVal(bs[pos + 3]) + HexVal(bs[pos + 4])
    ELSE -1

\* The escape whose backslash is at offset pos: its bytes and its end.
Escape(bs, pos, quote) ==
  IF pos + 2 > Len(bs) THEN TErr("unexpected end of input", pos)
  ELSE LET e == bs[pos + 2] IN
    CASE e = quote -> At(<<quote>>, pos + 2)
      [] e = 92  -> At(<<92>>, pos + 2)
      [] e = 47  -> At(<<47>>, pos + 2)
      [] e = 98  -> At(<<8>>, pos + 2)
      [] e = 102 -> At(<<12>>, pos + 2)
      [] e = 110 -> At(<<10>>, pos + 2)
      [] e = 114 -> At(<<13>>, pos + 2)
      [] e = 116 -> At(<<9>>, pos + 2)
      [] e = 117 ->
           LET u == HexUnit(bs, pos + 2) IN
           IF u < 0 THEN TErr("invalid escape", pos)
           ELSE IF IsLowSurrogate(u) THEN TErr("invalid surrogate pair", pos)
           ELSE IF IsHighSurrogate(u)
             THEN LET lo == IF pos + 8 <= Len(bs) /\ bs[pos + 7] = 92
                                 /\ bs[pos + 8] = 117
                              THEN HexUnit(bs, pos + 8) ELSE -1
                  IN  IF lo >= 0 /\ IsLowSurrogate(lo)
                        THEN At(Utf8Value(<<u, lo>>), pos + 12)
                        ELSE TErr("invalid surrogate pair", pos)
           ELSE At(Utf8Value(<<u>>), pos + 6)
      [] OTHER -> TErr("invalid escape", pos)

RECURSIVE ScanString(_, _, _, _, _)
\* The rest of a quoted string opened at offset open.
ScanString(bs, pos, quote, open, acc) ==
  IF pos >= Len(bs) THEN TErr("unterminated string", open)
  ELSE LET c == bs[pos + 1] IN
    IF c = quote THEN At(acc, pos + 1)
    ELSE IF c < 32 THEN TErr("unexpected control character", pos)
    ELSE IF c = 92
      THEN LET Rest(e) == IF ~e.ok THEN e
                          ELSE ScanString(bs, e.pos, quote, open, acc \o e.value)
           IN  (CHOOSE y \in {Rest(b1) :
                     b1 \in {Escape(bs, pos, quote)}} : TRUE)
    ELSE ScanString(bs, pos + 1, quote, open, Append(acc, c))

\* A quoted string whose opening quote is at offset pos.
QuotedString(bs, pos) == ScanString(bs, pos + 1, bs[pos + 1], pos, <<>>)

RECURSIVE Pow10(_)
Pow10(n) == IF n = 0 THEN 1 ELSE 10 * Pow10(n - 1)

SignBit(neg) == IF neg THEN 1 ELSE 0

\* The Float that is n / 10^m (m may be negative): the integer n * 10^-m
\* when m <= 0, the integer n / 5^m divided by 2^m when 5^m divides n.
DecimalToDouble(neg, n, m) ==
  IF n = 0 THEN MkDouble(SignBit(neg), 0, Zeros(52))
  ELSE CHOOSE y \in
         {MkDouble(SignBit(neg), DblExp(d) - (IF m > 0 THEN m ELSE 0), DblFrac(d)) :
            d \in {Int64ToDouble(I64(CASE m <= 0 -> n * Pow10(0 - m)
                                        [] m > 0 /\ n % Pow5(m) = 0 ->
                                             n \div Pow5(m)))}} : TRUE

\* The exponent of a literal: ne digits from offset p4 on, after an
\* optional sign (ne < 0 when the literal has none).
ExponentOf(bs, p4, ne) ==
  IF ne < 0 THEN 0
  ELSE CHOOSE y \in {IF bs[p4] = 45 THEN 0 - x ELSE x :
                       x \in {DigitsToNat(SubSeq(bs, p4 + 1, p4 + ne))}} : TRUE

\* The digits of a literal: ni from offset p1 on and, after the '.', nf more
\* (nf < 0 when the literal has none).
DigitsOf(bs, p1, ni, nf) ==
  IF nf <= 0 THEN SubSeq(bs, p1 + 1, p1 + ni)
  ELSE SubSeq(bs, p1 + 1, p1 + ni) \o SubSeq(bs, p1 + ni + 2, p1 + ni + 1 + nf)

\* The number whose digits make n: an Int iff the literal has no '.' and no
\* exponent (and fits in 64 bits), otherwise the Float n / 10^m.
NumberOf(neg, n, isInt, m) ==
  IF isInt THEN int_val(IF neg THEN NegBits(I64(n)) ELSE I64(n))
  ELSE float_val(DecimalToDouble(neg, n, m))

\* The literal at offset pos, once read: ni integer digits from offset p1,
\* nf fraction digits, ne exponent digits from offset p4, up to offset end.
NumberValue(bs, pos, p1, ni, nf, p4, ne, end) ==
  IF ni = 0 THEN TErr("invalid number", pos)
  ELSE IF ni > 1 /\ bs[p1 + 1] = 48 THEN TErr("invalid number", p1)
  ELSE IF ne = 0 THEN TErr("invalid number", p4)
  ELSE IF end < Len(bs) /\ IsIdentPart(bs[end + 1]) /\ bs[end + 1] # 45
    THEN TErr("invalid number", end)
  ELSE CHOOSE y \in
         {At(NumberOf(p1 > pos, n, nf < 0 /\ ne < 0, m), end) :
            n \in {DigitsToNat(DigitsOf(bs, p1, ni, nf))},
            m \in {(IF nf < 0 THEN 0 ELSE nf) - ExponentOf(bs, p4, ne)}} : TRUE

\* The exponent part, from offset p3 on (its digits start at offset p4).
NumberExponent(bs, pos, p1, ni, nf, p3, p4) ==
  CHOOSE y \in
    {NumberValue(bs, pos, p1, ni, nf, p4, ne, IF ne < 0 THEN p3 ELSE p4 + ne) :
       ne \in {IF p3 < Len(bs) /\ bs[p3 + 1] \in {101, 69}
                 THEN DigitRun(bs, p4) ELSE 0 - 1}} : TRUE

\* The fraction part, after ni integer digits, up to offset p3.
NumberFraction(bs, pos, p1, ni, nf, p3) ==
  NumberExponent(bs, pos, p1, ni, nf, p3,
                 IF p3 + 1 < Len(bs) /\ bs[p3 + 2] \in {43, 45}
                   THEN p3 + 2 ELSE p3 + 1)

\* The integer part: ni digits from offset p1 on.
NumberInteger(bs, pos, p1, ni) ==
  CHOOSE y \in
    {NumberFraction(bs, pos, p1, ni, nf, IF nf < 0 THEN p1 + ni ELSE p1 + ni + 1 + nf) :
       nf \in {IF p1 + ni < Len(bs) /\ bs[p1 + ni + 1] = 46
                 THEN DigitRun(bs, p1 + ni + 1) ELSE 0 - 1}} : TRUE

\* number = integer | float, at offset pos.
Number(bs, pos) ==
  CHOOSE y \in {NumberInteger(bs, pos, p1, DigitRun(bs, p1)) :
                  p1 \in {IF bs[pos + 1] = 45 THEN pos + 1 ELSE pos}} : TRUE

\* An identifier at offset pos: its bytes and its end.
Identifier(bs, pos) ==
  LET n == IdentRun(bs, pos) IN At(SubSeq(bs, pos + 1, pos + n), pos + n)

\* An identifier in value position.
Word(w) ==
  CASE w = Word_true  -> bool_val(TRUE)
    [] w = Word_false -> bool_val(FALSE)
    [] w = Word_null  -> null_val
    [] OTHER -> string_val(w)

RECURSIVE ParseValue(_, _, _, _)
RECURSIVE ParseItems(_, _, _, _, _)
RECURSIVE ParsePairs(_, _, _, _, _)

\* The values of an array up to its "]", from offset pos on.
ParseItems(bs, pos, depth, maxDepth, acc) ==
  LET AfterWs(w, a) ==
        IF ~w.ok THEN w
        ELSE IF w.pos >= Len(bs) THEN TErr("unexpected end of input", w.pos)
        ELSE IF bs[w.pos + 1] = 93 THEN At(array_val(a), w.pos + 1)
        ELSE LET Rest(r, b) ==
                   IF ~r.ok THEN r
                   ELSE ParseItems(bs, r.pos, depth, maxDepth, Append(b, r.value))
             IN  (CHOOSE y \in {Rest(b1, b2) :
                       b1 \in {ParseValue(bs, w.pos, depth + 1, maxDepth)},
                       b2 \in {a}} : TRUE)
  IN  (CHOOSE y \in {AfterWs(b1, b2) :
            b1 \in {SkipWs(bs, pos, TRUE)}, b2 \in {acc}} : TRUE)

\* The pairs of an object up to its "}", from offset pos on.
ParsePairs(bs, pos, depth, maxDepth, acc) ==
  LET AfterKey(k, at, a) ==
        IF ~k.ok THEN k
        ELSE IF \E i \in 1..Len(a) : a[i][1] = k.value
          THEN TErr("duplicate key", at)
        ELSE LET AfterColon(c) ==
                   IF ~c.ok THEN c
                   ELSE IF c.pos >= Len(bs)
                     THEN TErr("unexpected end of input", c.pos)
                   ELSE IF bs[c.pos + 1] # 58
                     THEN TErr("unexpected character", c.pos)
                   ELSE LET AfterGap(g) ==
                              IF ~g.ok THEN g
                              ELSE LET Rest(r, b) ==
                                         IF ~r.ok THEN r
                                         ELSE ParsePairs(bs, r.pos, depth, maxDepth,
                                                Append(b, <<k.value, r.value>>))
                                   IN  (CHOOSE y \in {Rest(b1, b2) :
                                             b1 \in {ParseValue(bs, g.pos, depth + 1, maxDepth)},
                                             b2 \in {a}} : TRUE)
                        IN  (CHOOSE y \in {AfterGap(b1) :
                                  b1 \in {SkipWs(bs, c.pos + 1, FALSE)}} : TRUE)
             IN  (CHOOSE y \in {AfterColon(b1) :
                       b1 \in {SkipWs(bs, k.pos, FALSE)}} : TRUE)
      AfterWs(w, a) ==
        IF ~w.ok THEN w
        ELSE IF w.pos >= Len(bs) THEN TErr("unexpected end of input", w.pos)
        ELSE IF bs[w.pos + 1] = 125 THEN At(object_val(a), w.pos + 1)
        ELSE IF bs[w.pos + 1] \notin {34, 39} /\ ~IsIdentStart(bs[w.pos + 1])
          THEN TErr("unexpected character", w.pos)
        ELSE CHOOSE y \in
               {AfterKey(k, w.pos, b) :
                  k \in {IF bs[w.pos + 1] \in {34, 39}
                           THEN QuotedString(bs, w.pos)
                           ELSE Identifier(bs, w.pos)},
                  b \in {a}} : TRUE
  IN  (CHOOSE y \in {AfterWs(b1, b2) : b1 \in {SkipWs(bs, pos, TRUE)}, b2 \in {acc}} : TRUE)

\* The value that starts at offset pos, at nesting depth `depth`.
ParseValue(bs, pos, depth, maxDepth) ==
  IF pos >= Len(bs) THEN TErr("unexpected end of input", pos)
  ELSE IF depth > maxDepth THEN TErr("depth exceeded", pos)
  ELSE LET c == bs[pos + 1] IN
    CASE c = 123 -> ParsePairs(bs, pos + 1, depth, maxDepth, <<>>)
      [] c = 91  -> ParseItems(bs, pos + 1, depth, maxDepth, <<>>)
      [] c \in {34, 39} ->
           LET Str(s) == IF s.ok THEN At(string_val(s.value), s.pos) ELSE s
           IN  (CHOOSE y \in {Str(b1) : b1 \in {QuotedString(bs, pos)}} : TRUE)
      [] c = 45 \/ IsDigit(c) -> Number(bs, pos)
      [] IsIdentStart(c) ->
           LET w == Identifier(bs, pos) IN At(Word(w.value), w.pos)
      [] OTHER -> TErr("unexpected character", pos)

\* Line (from 1) and column (from 1) of the byte at offset at.
LineOf(bs, at) == 1 + Cardinality({i \in 1..at : bs[i] = 10})
ColumnOf(bs, at) ==
  LET nls == {i \in 1..at : bs[i] = 10}
      last == IF nls = {} THEN 0 ELSE CHOOSE i \in nls : \A j \in nls : j <= i
  IN  at - last + 1

ParseError(msg, bs, at) ==
  [ok |-> FALSE, kind |-> "ParseError", message |-> msg, offset |-> at,
   line |-> LineOf(bs, at), column |-> ColumnOf(bs, at)]

\* The engine's parse: a document is exactly one value.
ParseDocument(bs, maxDepth) ==
  LET Fail(e) == ParseError(e.message, bs, e.offset)
      AfterWs(w) ==
        IF ~w.ok THEN Fail(w)
        ELSE LET AfterValue(r) ==
                   IF ~r.ok THEN Fail(r)
                   ELSE LET End(t, v) ==
                              IF ~t.ok THEN Fail(t)
                              ELSE IF t.pos < Len(bs)
                                THEN ParseError("unexpected character", bs, t.pos)
                              ELSE Ok(v)
                        IN  (CHOOSE y \in {End(b1, b2) :
                                  b1 \in {SkipWs(bs, r.pos, FALSE)},
                                  b2 \in {r.value}} : TRUE)
             IN  (CHOOSE y \in {AfterValue(b1) :
                       b1 \in {ParseValue(bs, w.pos, 1, maxDepth)}} : TRUE)
  IN  (CHOOSE y \in {AfterWs(b1) : b1 \in {SkipWs(bs, 0, FALSE)}} : TRUE)

(***************************************************************************)
(* The binding and index.ts for text: parse and stringify.  A text the     *)
(* caller holds is a JavaScript string (UTF-16 code units).                *)
(***************************************************************************)
\* new KodaParseError(message, position): line, column and offset are
\* NoOffset when the error is made from a message alone.
KodaParseError(msg, at, line, column) ==
  [ok |-> FALSE, kind |-> "ParseError", message |-> msg, offset |-> at,
   line |-> line, column |-> column]

\* NativeParse: only maxDepth is read from the options; what the engine
\* throws leaves as a plain Error carrying e.what().
NativeParse(text, opts) ==
  LET Out(r) == IF r.ok THEN Ok(ValueToNapi(r.value))
                ELSE Err("Error", r.message, NoOffset)
      Parsed(bs, max_depth) == (CHOOSE y \in {Out(b1) :
                b1 \in {ParseDocument(bs, max_depth)}} : TRUE)
  IN  (CHOOSE y \in {Parsed(b1, b2) :
            b1 \in {Utf8Value(text)},
            b2 \in {OptOr(opts.maxDepth, DefaultMaxDepth)}} : TRUE)

\* NativeStringify: info[0] converted, then the engine's compact form; any
\* further argument is ignored.
NativeStringify(value) ==
  LET Out(r) == IF r.ok THEN Ok(StringNew(r.value))
                ELSE Err("Error", r.message, NoOffset)
      Text(v) == (CHOOSE y \in {Out(b1) :
                b1 \in {StringifyValue(v, <<>>, <<10>>)}} : TRUE)
  IN  (CHOOSE y \in {Text(b1) : b1 \in {NapiToValue(value)}} : TRUE)

\* parseFast(text, options) of the JavaScript parser: the length bound is
\* checked before any parsing.
parseFast(text, opts) ==
  IF opts.maxInputLength.has /\ Len(text) > opts.maxInputLength.n
    THEN KodaParseError("input too large", 0, 1, 1)
  ELSE LET Out(r) == IF r.ok THEN Ok(ValueToNapi(r.value))
                     ELSE KodaParseError(r.message, r.offset, r.line, r.column)
           Parsed(bs, maxDepth) == (CHOOSE y \in {Out(b1) :
                     b1 \in {ParseDocument(bs, maxDepth)}} : TRUE)
       IN  (CHOOSE y \in {Parsed(b1, b2) :
                 b1 \in {Utf8Value(text)},
                 b2 \in {OptOr(opts.maxDepth, DefaultMaxDepth)}} : TRUE)

\* An absent string option, or the string s.
NoStr  == [has |-> FALSE, s |-> <<>>]
Str(s) == [has |-> TRUE, s |-> s]

\* !options?.indent is false: the indent is a non-empty string.
HasIndent(opts) == opts.indent.has /\ opts.indent.s # <<>>

\* stringifyText(value, options) of the JavaScript serializer.
stringifyText(value, opts) ==
  LET Out(r) == IF r.ok THEN Ok(StringNew(r.value)) ELSE r
      Text(v, nl) == (CHOOSE y \in {Out(b1) :
                b1 \in {StringifyValue(v, Utf8Value(opts.indent.s), nl)}} : TRUE)
  IN  (CHOOSE y \in {Text(b1, b2) :
            b1 \in {NapiToValue(value)},
            b2 \in {IF opts.newline.has THEN Utf8Value(opts.newline.s) ELSE <<10>>}} : TRUE)

\* index.ts parse(text, options)
parse(native, text, opts) ==
  IF native = "binding"
    THEN LET Out(r) == IF r.ok THEN r
                       ELSE KodaParseError(r.message, NoOffset, NoOffset, NoOffset)
         IN  (CHOOSE y \in {Out(b1) :
                   b1 \in {NativeParse(text, [maxDepth |-> opts.maxDepth])}} : TRUE)
    ELSE parseFast(text, opts)

\* index.ts stringify(value, options)
stringify(native, value, opts) ==
  IF native = "binding" /\ ~HasIndent(opts)
    THEN NativeStringify(value)
    ELSE stringifyText(value, opts)

(***************************************************************************)
(* What a call leaves of the value the caller handed in.  NapiToValue      *)
(* walks it with Length(), element reads, GetPropertyNames() and Get().    *)
(***************************************************************************)
RECURSIVE AfterNapiToValue(_)
RECURSIVE AfterGets(_, _)

\* obj.Get(key) with the value converted, as it leaves the object.
AfterGetRewriting(props, k) ==
  [props EXCEPT ![PropIndex(props, k)] =
     <<k, ValueToNapi(NapiToValue(@[2]))>>]

\* v.obj.emplace_back(key, NapiToValue(obj.Get(key))): the object after the
\* read of key k and the walk of its value.
AfterGet(props, k) ==
  [props EXCEPT ![PropIndex(props, k)] = <<k, AfterNapiToValue(@[2])>>]

AfterGets(props, keys) ==
  IF Len(keys) = 0 THEN props
  ELSE AfterGets(AfterGet(props, keys[1]), Tail(keys))

AfterNapiToValue(value) ==
  CASE value.t = "array"  ->
         JsArray(Tup([i \in 1..Len(value.elems) |-> AfterNapiToValue(value.elems[i])],
                     Len(value.elems)))
    [] value.t = "object" ->
         JsObject(AfterGets(value.props, GetPropertyNames(value.props)))
    [] OTHER -> value

\* The caller's value after encode(value, options) and after
\* stringify(value, options): the JavaScript encoder and serializer only
\* read it.
AfterEncode(native, value) ==
  IF native = "binding" THEN AfterNapiToValue(value) ELSE value

AfterStringify(native, value, opts) ==
  IF native = "binding" /\ ~HasIndent(opts) THEN AfterNapiToValue(value) ELSE value

(***************************************************************************)
(* The text calls on one module instance: stringify with and without its   *)
(* options, parse on what stringify returned and on texts written by hand. *)
(* enc holds the latest stringify call, dec the latest parse call.         *)
(***************************************************************************)
ParseOptions ==
  [maxDepth : OptValues, maxInputLength : {NoOpt}]
    \cup [maxDepth : {NoOpt}, maxInputLength : OptValues]

StringifyOptions ==
  [indent : {NoStr, Str(<<>>), Str(<<32>>)}, newline : {NoStr}]
    \cup [indent : {Str(<<32>>)}, newline : {Str(<<13, 10>>)}]

\* The compact text of a Value, as any conforming serializer writes it.
TextOf(v) == StringNew(Serialize(v, <<>>, <<10>>, 0))

\* Texts that are no document: a key used twice, on the second line
\*   {a:1
\*    a:2}
\* and an array that is not closed.
DuplicateKeyText == <<123, 97, 58, 49, 10, 32, 97, 58, 50, 125>>
OpenArrayText    == <<91, 49, 32>>
BadTexts == {DuplicateKeyText, OpenArrayText}

\* A document whose second key is a digit string: {b:0 "2":1}
DigitKeyText == <<123, 98, 58, 48, 32, 34, 50, 34, 58, 49, 125>>

\* The texts a caller hands to parse: what the latest stringify returned,
\* a document written by hand, and texts that are no document.
Texts ==
  BadTexts \cup {DigitKeyText}
    \cup (IF enc.op = "stringify" /\ enc.result.ok THEN {enc.result.value} ELSE {})

\* The Values the text calls are exercised on.
TextValues ==
  {float_val(DblNegZero), string_val(Word_null),
   array_val(<<int_val(NegBits(I64(12))), float_val(DblOneHalf), array_val(<<>>)>>),
   object_val(<<<<Str_b, null_val>>, <<Str_2, string_val(Str_eacute)>>>>)}

\* stringify(value, o) on the caller's Value
StringifyCall(o) ==
  LET native == loadNative(cached, addon)
      arg == ValueToNapi(val)
  IN  /\ cached' = native
      /\ enc' = [op |-> "stringify", native |-> native, arg |-> arg,
                 opts |-> o, result |-> stringify(native, arg, o),
                 after |-> AfterStringify(native, arg, o)]
      /\ UNCHANGED <<addon, val, dec>>

\* parse(t, o)
ParseCall(t, o) ==
  LET native == loadNative(cached, addon) IN
  /\ cached' = native
  /\ dec' = Call("parse", native, t, o, parse(native, t, o))
  /\ UNCHANGED <<addon, val, enc>>

\* stringify(value, options)
CallStringify ==
  /\ \E o \in StringifyOptions : StringifyCall(o)
  /\ UNCHANGED <<asyncVars, poolVars, streamVars>>

\* parse(text, options)
CallParse ==
  /\ \E t \in Texts, o \in ParseOptions : ParseCall(t, o)
  /\ UNCHANGED <<asyncVars, poolVars, streamVars>>

InitText ==
  /\ InitCodec
  /\ val \in TextValues
  /\ InitWorkers
  /\ NoStreams

NextText ==
  \/ CallStringify
  \/ CallParse

SpecText == InitText /\ [][NextText]_vars

(***************************************************************************)
(* Every operation of one module instance side by side, each called the    *)
(* plain way: parse, stringify (compact or indented), encode, decodeSync   *)
(* and decode.                                                             *)
(***************************************************************************)
NoParseOptions == [maxDepth |-> NoOpt, maxInputLength |-> NoOpt]
Compact  == [indent |-> NoStr, newline |-> NoStr]
Indented == [indent |-> Str(<<32>>), newline |-> NoStr]

\* The document of the caller's Value, whole and cut short.
PlainBuffers ==
  UNION {{doc, SubSeq(doc, 1, Len(doc) - 1)} : doc \in {Document(val)}}

\* stringify(value) and stringify(value, {indent: " "})
CallStringifyPlain ==
  /\ \E o \in {Compact, Indented} : StringifyCall(o)
  /\ UNCHANGED <<asyncVars, poolVars, streamVars>>

\* parse(text) on the text of the caller's Value and on a text that is no
\* document
CallParsePlain ==
  /\ \E t \in {TextOf(val), OpenArrayText} : ParseCall(t, NoParseOptions)
  /\ UNCHANGED <<asyncVars, poolVars, streamVars>>

\* encode(value) and encode(value, {maxDepth: 1})
CallEncodePlain ==
  \E o \in EncodeOptions :
    LET native == loadNative(cached, addon)
        arg == ValueToNapi(val)
    IN  /\ cached' = native
        /\ enc' = [op |-> "encode", native |-> native, arg |-> arg,
                   opts |-> o, result |-> encode(native, arg, o),
                   after |-> AfterEncode(native, arg)]
        /\ UNCHANGED <<addon, val, dec>>
        /\ UNCHANGED <<asyncVars, poolVars, streamVars>>

\* decodeSync(buffer)
CallDecodeSyncPlain ==
  /\ \E b \in PlainBuffers : DecodeSyncCall(b, NoDecodeOptions)
  /\ UNCHANGED <<asyncVars, poolVars, streamVars>>

\* decode(buffer): worker Len(jobs) + 1 is started for this call
CallDecodePlain ==
  /\ Len(jobs) < MaxCalls
  /\ \E b \in PlainBuffers :
       LET id == Len(jobs) + 1 IN
       /\ jobs' = Append(jobs, Job(b, NoDecodeOptions, "running", NoOutcome))
       /\ inbox' = [inbox EXCEPT
                      ![id] = <<[id |-> id, buffer |-> b,
                                 options |-> NoDecodeOptions]>>]
  /\ UNCHANGED <<wcache, replies, codecVars, poolVars, streamVars>>

\* The Values the operations are exercised on side by side.
PlainValues ==
  {array_val(<<float_val(DblOneHalf)>>),
   object_val(<<<<Str_b, float_val(DblNegZero)>>, <<Str_a, array_val(<<>>)>>>>)}

InitAll ==
  /\ InitCodec
  /\ val \in PlainValues
  /\ InitWorkers
  /\ NoStreams

NextAll ==
  \/ CallStringifyPlain
  \/ CallParsePlain
  \/ CallEncodePlain
  \/ CallDecodeSyncPlain
  \/ CallDecodePlain
  \/ \E w \in WorkerIds : WorkerHandle(w)
  \/ \E w \in WorkerIds : MainReceive(w)

SpecAll == InitAll /\ [][NextAll]_vars

(***************************************************************************)
(* The same synchronous calls while the addon file comes and goes: it is   *)
(* built, removed or replaced while the process runs.                      *)
(***************************************************************************)
\* build/Release/koda_js.node changes on disk
AddonChanges ==
  /\ \E a \in AddonStates \ {addon} : addon' = a
  /\ UNCHANGED <<cached, val, enc, dec>>
  /\ UNCHANGED <<asyncVars, poolVars, streamVars>>

NextEnv ==
  \/ CallStringifyPlain
  \/ CallParsePlain
  \/ CallEncodePlain
  \/ CallDecodeSyncPlain
  \/ AddonChanges

SpecEnv == InitAll /\ [][NextEnv]_vars

(***************************************************************************)
(* The message port of the decoder workers on its own: messages are posted *)
(* to a worker faster than it handles them, and what it posts back stays   *)
(* on its port.  jobs lists the messages posted, in order; message j has   *)
(* id j.                                                                   *)
(***************************************************************************)
\* Most messages posted to the workers.
MaxPosts == 3

\* worker.postMessage({id, buffer, options}) to worker w
PostMessage(w) ==
  /\ Len(jobs) < MaxPosts
  /\ \E b \in PlainBuffers :
       LET id == Len(jobs) + 1 IN
       /\ jobs' = Append(jobs, Job(b, NoDecodeOptions, "running", NoOutcome))
       /\ inbox' = [inbox EXCEPT
                      ![w] = Append(@, [id |-> id, buffer |-> b,
                                        options |-> NoDecodeOptions])]
  /\ UNCHANGED <<wcache, replies, codecVars, poolVars, streamVars>>

NextWorker ==
  \/ \E w \in WorkerIds : PostMessage(w)
  \/ \E w \in WorkerIds : WorkerHandle(w)

SpecWorker == InitAll /\ [][NextWorker]_vars

(***************************************************************************)
(* Structural equality of Values: by kind and bits for numbers (all NaNs   *)
(* equal), by bytes for strings, by key for the pairs of an Object.        *)
(***************************************************************************)
RECURSIVE ValueEq(_, _)
ValueEq(v, w) ==
  /\ v.type = w.type
  /\ CASE v.type = "Null"   -> TRUE
       [] v.type = "Bool"   -> v.b = w.b
       [] v.type = "Int"    -> v.i = w.i
       [] v.type = "Float"  -> v.d = w.d \/ (DblIsNaN(v.d) /\ DblIsNaN(w.d))
       [] v.type = "String" -> v.s = w.s
       [] v.type = "Array"  ->
            /\ Len(v.arr) = Len(w.arr)
            /\ \A i \in 1..Len(v.arr) : ValueEq(v.arr[i], w.arr[i])
       [] v.type = "Object" ->
            /\ Len(v.obj) = Len(w.obj)
            /\ \A i \in 1..Len(v.obj) : \E j \in 1..Len(w.obj) :
                 v.obj[i][1] = w.obj[j][1] /\ ValueEq(v.obj[i][2], w.obj[j][2])

\* The latest decodeSync call, made without options, decoded the output of
\* the latest encode call, which was given the caller's Value.
RoundTripMade ==
  /\ enc.op = "encode"
  /\ enc.arg = ValueToNapi(val)
  /\ enc.result.ok
  /\ dec.op = "decodeSync"
  /\ dec.opts = NoDecodeOptions
  /\ dec.arg = enc.result.value

\* C1: binary round trip.  Whenever decodeSync has decoded encode(V), it
\* returned a Value structurally equal to V (numbers by kind and bits).
C1_RoundTrip ==
  RoundTripMade => dec.result.ok /\ ValueEq(NapiToValue(dec.result.value), val)

\* Offset (from 1) of the tag byte of a scalar root: after the magic, the
\* version and an empty dictionary.
RootTagAt == Len(Magic) + 1 + 4 + 1

ObjFloatOne == object_val(<<<<Str_a, float_val(DblOne)>>>>)
ObjIntOne   == object_val(<<<<Str_a, int_val(I64(1))>>>>)

\* C2: numeric classification in encode.  A Float is emitted with tag 0x05
\* (also an integral one) and an Int with tag 0x04, and the encodings of
\* {a: Float 1.0} and {a: Int 1} differ.
C2_Classification ==
  (enc.op = "encode" /\ enc.arg = ValueToNapi(val) /\ enc.result.ok) =>
    /\ val.type = "Float" => enc.result.value[RootTagAt] = TagFloat
    /\ val.type = "Int" => enc.result.value[RootTagAt] = TagInt
    /\ val = ObjFloatOne =>
         enc.result # encode(enc.native, ValueToNapi(ObjIntOne), enc.opts)

\* The latest decodeSync call, made without options, decoded the document
\* of the caller's Value.
DecodedDocument ==
  /\ dec.op = "decodeSync"
  /\ dec.opts = NoDecodeOptions
  /\ dec.arg = Document(val)

\* C3: Int preservation.  decodeSync of an Int body returns a number whose
\* value is exactly that integer, for every Int of the signed 64-bit range.
C3_IntPreserved ==
  (DecodedDocument /\ val.type = "Int") =>
    /\ dec.result.ok
    /\ dec.result.value.t = "number"
    /\ IntIsExact(val.i)
    /\ dec.result.value.d = Int64ToDouble(val.i)

\* C4: canonical determinism.  The bytes an encode call returned are the
\* bytes encode returns for every structurally equal Value, whatever the
\* order of its object keys, and a decoder that insists on ascending key
\* indices accepts them.
C4_Canonical ==
  enc.op = "encode" =>
    /\ \A w \in Reorderings(val) :
         encode(enc.native, ValueToNapi(w), enc.opts) = enc.result
    /\ enc.result.ok =>
         DecodeBytes(enc.result.value, DefaultMaxDepth, DefaultMaxDictionarySize,
                     DefaultMaxStringLength).ok

\* An encode call succeeded on an Object whose keys were listed in an order
\* that is not the canonical one, and another order exists.
C4_Witness ==
  /\ enc.op = "encode"
  /\ enc.result.ok
  /\ val.type = "Object"
  /\ \E w \in Reorderings(val) : ValueToNapi(w) # enc.arg
  /\ \E i \in 1..(Len(enc.arg.props) - 1) :
       LexLess(Utf8Value(enc.arg.props[i + 1][1]), Utf8Value(enc.arg.props[i][1]))

\* Two JavaScript values a caller cannot tell apart: numbers with the same
\* bits (or both NaN), strings with the same code units, arrays with the same
\* elements in order, objects with the same keys and values.
RECURSIVE JsEq(_, _)
JsEq(x, y) ==
  /\ x.t = y.t
  /\ CASE x.t = "number" -> x.d = y.d \/ (DblIsNaN(x.d) /\ DblIsNaN(y.d))
       [] x.t = "array"  ->
            /\ Len(x.elems) = Len(y.elems)
            /\ \A i \in 1..Len(x.elems) : JsEq(x.elems[i], y.elems[i])
       [] x.t = "object" ->
            /\ Len(x.props) = Len(y.props)
            /\ \A i \in 1..Len(x.props) : \E j \in 1..Len(y.props) :
                 x.props[i][1] = y.props[j][1]
                 /\ JsEq(x.props[i][2], y.props[j][2])
       [] OTHER -> x = y

\* Only Values were written, through the encode stream, to a decode stream
\* with the default maxFrameSize.
FramedOnly ==
  /\ \A i \in 1..Len(written) : written[i].kind = "value"
  /\ stream.maxFrameSize = DefaultMaxFrameSize

\* C7: streaming equivalence.  Whatever the chunks, the decode stream raises
\* no error and emits the Values written, in order and one decoder call
\* each: never more than were written, and all of them once every byte has
\* arrived.
C7_StreamEquivalence ==
  FramedOnly =>
    /\ ~stream.destroyed
    /\ stream.calls = Len(stream.emitted)
    /\ Len(stream.emitted) <= Len(written)
    /\ wire = <<>> => Len(stream.emitted) = Len(written)
    /\ \A i \in 1..Len(stream.emitted) :
         JsEq(stream.emitted[i], ValueToNapi(written[i].v))

\* The first thing written is not a frame the stream accepts (every frame
\* written is longer than SmallFrameSize), and enough of it has arrived for
\* the stream to tell.
FirstItemBad(msg) ==
  /\ written # <<>>
  /\ CASE msg = "malformed varint" ->
            /\ written[1].kind = "raw"
            /\ written[1].bytes = BadVarint
            /\ stream.seen + stream.late >= MaxVarintBytes
       [] msg = "truncated header" ->
            /\ written[1].kind = "raw"
            /\ written[1].bytes = BadPayload
            /\ stream.seen + stream.late >= Len(BadPayload)
       [] msg = "truncated stream" ->
            /\ Len(written) = 1
            /\ written[1].kind = "raw"
            /\ written[1].bytes = PartialFrame
            /\ stream.ended
       [] msg = "frame too large" ->
            /\ written[1].kind = "value"
            /\ stream.maxFrameSize = SmallFrameSize
            /\ stream.seen + stream.late >= Len(Leb128(DefaultMaxFrameSize))

FrameErrors ==
  {"malformed varint", "truncated header", "truncated stream",
   "frame too large"}

\* C8: a frame-level error is terminal.  A varint that does not end within
\* 10 bytes, a frame longer than maxFrameSize, the end of input inside a
\* frame and a payload the decoder rejects each destroy the stream with that
\* error; a destroyed stream stays destroyed, keeps its error and emits
\* nothing more, whatever arrives.
C8_ErrorTerminal ==
  /\ [](\A msg \in FrameErrors :
          FirstItemBad(msg) =>
            /\ stream.destroyed
            /\ stream.error.message = msg
            /\ stream.emitted = <<>>)
  /\ [](stream.destroyed <=> ~stream.error.ok)
  /\ [][stream.destroyed =>
          /\ stream'.destroyed
          /\ stream'.error = stream.error
          /\ stream'.emitted = stream.emitted]_vars

\* The stream was destroyed by a payload the decoder rejects, and a whole
\* frame written behind it has arrived since: nothing was emitted.
C8_Witness ==
  /\ stream.destroyed
  /\ stream.error.message = "truncated header"
  /\ Len(written) = 2
  /\ written[2].kind = "value"
  /\ wire = <<>>
  /\ stream.late > MaxVarintBytes
  /\ stream.emitted = <<>>

\* The backend the call did not take.
OtherBackend(native) == IF native = "binding" THEN "null" ELSE "binding"

\* Two outcomes a caller cannot tell apart: equal outputs, or errors of the
\* same kind at the same offset.
SameOutcome(r, q) ==
  IF r.ok THEN q.ok /\ q.value = r.value
          ELSE ~q.ok /\ q.kind = r.kind /\ q.offset = r.offset

\* C5: backend equivalence.  What an encode or decodeSync call returned or
\* threw on the backend it took is what the other backend returns or throws
\* for the same input and options.
C5_BackendEquivalence ==
  /\ enc.op = "encode" =>
       SameOutcome(enc.result, encode(OtherBackend(enc.native), enc.arg, enc.opts))
  /\ dec.op = "decodeSync" =>
       SameOutcome(dec.result, decodeSync(OtherBackend(dec.native), dec.arg, dec.opts))

\* The job has settled, and the latest decodeSync call was given the job's
\* buffer and options.
SettledBoth(j) ==
  /\ jobs[j].state # "running"
  /\ dec.op = "decodeSync"
  /\ dec.arg = jobs[j].buffer
  /\ dec.opts = jobs[j].options

\* C6: asynchronous decode.  Whenever decode(B, O) has settled and
\* decodeSync(B, O) has returned or thrown, the promise resolved exactly
\* when decodeSync returned, and with the same value.
C6_AsyncEquivalence ==
  \A j \in 1..Len(jobs) :
    SettledBoth(j) =>
      IF dec.result.ok
        THEN jobs[j].state = "resolved" /\ jobs[j].outcome = dec.result.value
        ELSE jobs[j].state = "rejected"

\* A promise rejected because of a bound the options carry, where decodeSync
\* threw as well.
C6_Witness ==
  \E j \in 1..Len(jobs) :
    /\ SettledBoth(j)
    /\ jobs[j].state = "rejected"
    /\ jobs[j].options.maxStringLength.has
    /\ decodeSync(cached, jobs[j].buffer, NoDecodeOptions).ok

Settled(j) == jobs[j].state \in {"resolved", "rejected"}

Dispatched(j) == \E k \in 1..Len(log) : log[k].id = j

\* The workers are released only once every job has settled, and a job
\* submitted after destroy is rejected without ever reaching a worker.
PoolDrained ==
  /\ pool.state = "released" =>
       /\ \A j \in 1..Len(jobs) : Settled(j)
       /\ \A w \in WorkerIds : inbox[w] = <<>> /\ replies[w] = <<>>
  /\ \A j \in pool.late :
       /\ jobs[j].state = "rejected"
       /\ jobs[j].outcome = PoolDestroyed
       /\ ~Dispatched(j)

\* Job j is on its way to settle: its message waits at the worker that runs
\* it or the worker's answer waits at the main thread, or j waits in the
\* queue while every worker is busy.
OnItsWay(j) ==
  IF jobs[j].state = "running"
    THEN \E w \in PoolWorkers(pool) :
           /\ busy[w] = j
           /\ \/ inbox[w] # <<>> /\ Head(inbox[w]).id = j
              \/ replies[w] # <<>> /\ Head(replies[w]).id = j
    ELSE /\ \E i \in 1..Len(queue) : queue[i] = j
         /\ IdleWorkers(pool, busy) = {}

\* C9: pool lifecycle.  The workers are released only once every submitted
\* job has settled; while destroy waits, a job is still unsettled and every
\* unsettled job is on its way to settle; a job submitted after destroy is
\* rejected at once and never reaches a worker.
C9_PoolLifecycle ==
  /\ PoolDrained
  /\ pool.state = "draining" =>
       /\ Unsettled(jobs) # {}
       /\ \A j \in Unsettled(jobs) : OnItsWay(j)

\* The workers were released after destroy found jobs unsettled, one of
\* which failed to decode, and a later submission was rejected.
C9_Witness ==
  /\ pool.state = "released"
  /\ \E j \in pool.owed : jobs[j].state = "rejected"
  /\ \E j \in pool.owed : jobs[j].state = "resolved"
  /\ pool.late # {}

\* C10: pool dispatch.  Jobs reach the workers in submission order, each at
\* most once and each to a worker that was idle; a job waits only while no
\* worker is idle, behind no job submitted after it.
C10_FifoDispatch ==
  /\ \A k \in 1..Len(log) :
       /\ log[k].worker \in log[k].idle
       /\ \A m \in 1..Len(log) : k < m => log[k].id < log[m].id
       /\ \A i \in 1..Len(log[k].behind) : log[k].id < log[k].behind[i]
  /\ \A i \in 1..Len(queue) :
       /\ ~Dispatched(queue[i])
       /\ jobs[queue[i]].state = "queued"
       /\ \A k \in 1..Len(log) : log[k].id < queue[i]
       /\ \A m \in 1..Len(queue) : i < m => queue[i] < queue[m]
  /\ queue # <<>> => IdleWorkers(pool, busy) = {}
  /\ \A w \in WorkerIds : Len(inbox[w]) + Len(replies[w]) <= 1
  /\ \A j \in 1..Len(jobs) :
       j \notin pool.late =>
         (jobs[j].state = "queued" <=> \E i \in 1..Len(queue) : queue[i] = j)
         /\ (jobs[j].state # "queued" <=> Dispatched(j))

\* A job was dispatched while a later one still waited, and that one was
\* dispatched after it.
C10_Witness ==
  \E k \in 1..Len(log) :
    /\ log[k].behind # <<>>
    /\ \E m \in 1..Len(log) : k < m /\ log[m].id = Head(log[k].behind)

(***************************************************************************)
(* C11: every decode failure, from decodeSync and from the asynchronous    *)
(* decode alike, reaches the caller as a DecodeError that carries the byte *)
(* offset at which validation failed and the reason kind.                  *)
(***************************************************************************)
CarriesOffset(e) ==
  /\ e.kind = "DecodeError"
  /\ e.offset # NoOffset

C11_DecodeErrorLocated ==
  /\ (dec.op = "decodeSync" /\ ~dec.result.ok) => CarriesOffset(dec.result)
  /\ \A j \in 1..Len(jobs) :
       jobs[j].state = "rejected" => CarriesOffset(jobs[j].outcome)

(***************************************************************************)
(* C13: every failure of encode reaches the caller as an EncodeError, and  *)
(* a failed encode returns no byte sequence, not even a partial one.       *)
(***************************************************************************)
C13_EncodeErrorTyped ==
  (enc.op = "encode" /\ ~enc.result.ok) =>
    /\ enc.result.kind = "EncodeError"
    /\ "value" \notin DOMAIN enc.result

(***************************************************************************)
(* C15: bound enforcement in decodeSync.  An input whose nesting depth,    *)
(* dictionary count or string or key length exceeds the configured bound   *)
(* is rejected with an error, never decoded or truncated; an omitted       *)
(* option means the default bound (256, 65536 and 1000000).                *)
(***************************************************************************)
\* The bound an option configures.
Configured(opt, default) == IF opt.has THEN opt.n ELSE default

\* The bytes are a well-formed header followed by a dictionary count.
DeclaresDictionary(bs) ==
  /\ Len(bs) >= HeaderLen + 4
  /\ SubSeq(bs, 1, 4) = Magic
  /\ bs[5] = Version

\* The bytes are a header, an empty dictionary and the start of a root String.
DeclaresRootString(bs) ==
  /\ DeclaresDictionary(bs)
  /\ ReadU32(bs, HeaderLen) = 0
  /\ Len(bs) >= HeaderLen + 9
  /\ bs[HeaderLen + 5] = TagString

\* The input of the decodeSync call exceeds one of the bounds of the call.
DepthExceeded ==
  /\ dec.arg = Document(val)
  /\ Depth(val) > Configured(dec.opts.maxDepth, 256)

DictionaryExceeded ==
  /\ DeclaresDictionary(dec.arg)
  /\ ReadU32(dec.arg, HeaderLen) > Configured(dec.opts.maxDictionarySize, 65536)

StringExceeded ==
  \/ /\ dec.arg = Document(val)
     /\ \E s \in StringsOf(val) \cup KeysOf(val) :
          Len(s) > Configured(dec.opts.maxStringLength, 1000000)
  \/ /\ DeclaresRootString(dec.arg)
     /\ ReadU32(dec.arg, HeaderLen + 5)
          > Configured(dec.opts.maxStringLength, 1000000)

C12_ParseErrorLocated ==
  (dec.op = "parse" /\ ~dec.result.ok) =>
    /\ dec.result.kind = "ParseError"
    /\ dec.result.offset # NoOffset
    /\ dec.result.line # NoOffset
    /\ dec.result.column # NoOffset

\* The text handed to the latest parse call is longer than its maxInputLength.
TooLong ==
  /\ dec.op = "parse"
  /\ dec.opts.maxInputLength.has
  /\ Len(dec.arg) > dec.opts.maxInputLength.n

\* C14: parse(text, {maxInputLength}) rejects every text whose length
\* exceeds maxInputLength; no such text yields a Value.
C14_InputLengthEnforced ==
  TooLong =>
    /\ ~dec.result.ok
    /\ "value" \notin DOMAIN dec.result

\* The latest parse call, made without options, parsed the text the latest
\* stringify call returned for the caller's Value.
TextRoundTripMade ==
  /\ enc.op = "stringify"
  /\ enc.arg = ValueToNapi(val)
  /\ enc.result.ok
  /\ dec.op = "parse"
  /\ dec.opts = NoParseOptions
  /\ dec.arg = enc.result.value

\* C16: text round trip.  Whenever parse has parsed stringify(V), with or
\* without indent and newline, for a V without NaN or infinite Float, it
\* returned a Value structurally equal to V (numbers by kind and bits).
C16_TextRoundTrip ==
  (TextRoundTripMade /\ ~HasNonFinite(val)) =>
    /\ dec.result.ok
    /\ ValueEq(NapiToValue(dec.result.value), val)

\* The keys of a JavaScript object in the order the object lists them, and
\* the keys of the Object a text denotes in the order the text writes them.
JsKeys(x) == [i \in 1..Len(x.props) |-> Utf8Value(x.props[i][1])]
TextKeys(text) ==
  LET r == ParseDocument(Utf8Value(text), DefaultMaxDepth)
  IN  [i \in 1..Len(r.value.obj) |-> r.value.obj[i][1]]

\* C17: object key order.  The Object parse returns lists its pairs in the
\* order of the source text, and the text stringify returns writes the pairs
\* in the order the Value it was given lists them, digit-string keys
\* included.
C17_KeyOrder ==
  /\ (dec.op = "parse" /\ dec.result.ok /\ dec.result.value.t = "object") =>
       JsKeys(dec.result.value) = TextKeys(dec.arg)
  /\ (enc.op = "stringify" /\ enc.result.ok /\ enc.arg.t = "object") =>
       TextKeys(enc.result.value) = JsKeys(enc.arg)

\* What encode or stringify, and what decodeSync or parse, return for the
\* arguments of the recorded call c when served by the backend `native`.
EncOutcome(native, c) ==
  IF c.op = "encode" THEN encode(native, c.arg, c.opts)
  ELSE stringify(native, c.arg, c.opts)
DecOutcome(native, c) ==
  IF c.op = "decodeSync" THEN decodeSync(native, c.arg, c.opts)
  ELSE parse(native, c.arg, c.opts)

\* C18 as stated: no shared state between calls.  No parse, stringify,
\* encode or decodeSync call writes process-wide state, and the outcome of
\* each is what the same call returns as the first call of a process.
C18_NoSharedState ==
  [][/\ cached' = cached
     /\ enc' # enc => enc'.result = EncOutcome(loadNative("undefined", addon), enc')
     /\ dec' # dec => dec'.result = DecOutcome(loadNative("undefined", addon), dec')]_vars

\* C18: the only process-wide state parse, stringify, encode and decodeSync
\* touch is the loader's cache of the native binding.  The first call writes
\* it and no later call changes it; the outcome of every call is the one
\* its arguments give with the backend the cache holds.
C18_CacheOnly ==
  [][/\ cached # "undefined" => cached' = cached
     /\ cached' # "undefined" =>
          /\ enc'.op # "none" =>
               enc'.native = cached' /\ enc'.result = EncOutcome(cached', enc')
          /\ dec'.op # "none" =>
               dec'.native = cached' /\ dec'.result = DecOutcome(cached', dec')]_vars

\* The cache holds the binding although the addon is gone, an encode or
\* stringify call has been served, and a parse served by the binding has
\* failed without a position.
C18_Witness ==
  /\ addon = "absent"
  /\ cached = "binding"
  /\ enc.op # "none"
  /\ dec.op = "parse"
  /\ ~dec.result.ok
  /\ dec.result.offset = NoOffset

\* What the JavaScript implementation returns for the recorded call c, and
\* how the promise of job j settles when the worker decodes with decodeJS.
JsOutcome(c) ==
  CASE c.op = "encode"     -> encodeBinary(c.arg, c.opts)
    [] c.op = "stringify"  -> stringifyText(c.arg, c.opts)
    [] c.op = "decodeSync" -> decodeBinary(c.arg, c.opts)
    [] c.op = "parse"      -> parseFast(c.arg, c.opts)
JsSettled(j) ==
  LET r == decodeBinary(jobs[j].buffer, jobs[j].options) IN
  IF r.ok THEN jobs[j].state = "resolved"
               /\ jobs[j].outcome = StructuredClone(r.value)
          ELSE jobs[j].state = "rejected"
               /\ jobs[j].outcome = Err("DecodeError", r.message, NoOffset)

\* C19: pure-JavaScript fallback.  While the addon is absent, fails to load
\* or lacks one of its four exports, loadNative returns null, on the main
\* thread and in every worker, and parse, stringify, encode, decodeSync and
\* the worker's decode return what the JavaScript implementation returns;
\* stringify with a non-empty indent is served by the JavaScript serializer
\* whatever the addon.
C19_Fallback ==
  /\ addon # "built" =>
       /\ cached \in {"undefined", "null"}
       /\ \A w \in WorkerIds : wcache[w] \in {"undefined", "null"}
       /\ enc.op # "none" => enc.native = "null" /\ enc.result = JsOutcome(enc)
       /\ dec.op # "none" => dec.native = "null" /\ dec.result = JsOutcome(dec)
       /\ \A j \in 1..Len(jobs) : jobs[j].state # "running" => JsSettled(j)
  /\ (enc.op = "stringify" /\ HasIndent(enc.opts)) =>
       enc.result = stringifyText(enc.arg, enc.opts)

\* The addon file is there but lacks an export: the loader cached null, a
\* compact stringify and a failed parse were served by the JavaScript
\* implementation, which reports the position, and a worker that found no
\* binding either decoded a document.
C19_Witness ==
  /\ addon = "incomplete"
  /\ cached = "null"
  /\ enc.op = "stringify"
  /\ ~HasIndent(enc.opts)
  /\ dec.op = "parse"
  /\ ~dec.result.ok
  /\ dec.result.offset # NoOffset
  /\ \E j \in 1..Len(jobs) : jobs[j].state = "resolved" /\ wcache[j] = "null"

Ids(msgs) == [i \in 1..Len(msgs) |-> msgs[i].id]

\* The ids worker w has answered, then the ids it has yet to handle.
Served(w) == Ids(replies[w]) \o Ids(inbox[w])

\* The reply to message j is {id, value} with nothing else, or {id, error}
\* with nothing else, and it is {id, value} exactly when the document
\* decodes.
WellFormedReply(reply) ==
  /\ reply.id \in 1..Len(jobs)
  /\ IF decodeBinary(jobs[reply.id].buffer, jobs[reply.id].options).ok
       THEN reply.kind = "value" /\ DOMAIN reply = {"id", "kind", "value"}
       ELSE reply.kind = "error" /\ DOMAIN reply = {"id", "kind", "error"}

\* C21: decoder worker protocol.  Every message a worker received is
\* answered by exactly one reply or still waits to be handled, none is lost
\* to an exception and none answered twice; a reply carries the id of its
\* message and is {id, value} when decoding succeeds, {id, error} when it
\* throws; each worker answers in the order it received (ids are handed out
\* in posting order, so that is ascending order).
C21_WorkerProtocol ==
  /\ \A j \in 1..Len(jobs) :
       Cardinality({<<w, i>> \in WorkerIds \X (1..Len(jobs)) :
                      i <= Len(Served(w)) /\ Served(w)[i] = j}) = 1
  /\ \A w \in WorkerIds :
       /\ \A i \in 1..Len(replies[w]) : WellFormedReply(replies[w][i])
       /\ \A i \in 1..(Len(Served(w)) - 1) : Served(w)[i] < Served(w)[i + 1]

\* One worker received three messages before it answered the second; it
\* has posted a value and then an error, and the third message still waits.
C21_Witness ==
  \E w \in WorkerIds :
    /\ Len(replies[w]) = 2
    /\ replies[w][1].kind = "value"
    /\ replies[w][2].kind = "error"
    /\ Len(inbox[w]) = 1

\* The backend that served the recorded call c, if a call was recorded.
Answers(c) == IF c.op = "none" THEN {} ELSE {c.native}

\* C22: backend selection is decided once.  Once loadNative has returned,
\* its cache never changes, whatever becomes of the addon file its later
\* calls are pointed at; every parse, stringify, encode and decodeSync call
\* is served by the backend the cache holds, so all calls of one process
\* were given the same answer, the binding or null.
C22_DecidedOnce ==
  [][/\ cached # "undefined" => cached' = cached
     /\ Answers(enc') \cup Answers(dec') \subseteq {cached'}
     /\ Cardinality(Answers(enc') \cup Answers(dec')) <= 1]_vars

\* The first call found no usable addon and cached null; the addon has been
\* built since, and the calls on record, a stringify or encode and a
\* decodeSync that reports its byte offset, were served by JavaScript.
C22_Witness ==
  /\ addon = "built"
  /\ cached = "null"
  /\ enc.op # "none"
  /\ enc.native = "null"
  /\ dec.op = "decodeSync"
  /\ dec.native = "null"
  /\ ~dec.result.ok
  /\ dec.result.offset # NoOffset

====
